---- MODULE Spec2Model ----
(***************************************************************************)
(* PPT Daddy: the agent orchestration loops (MainChat, PPTAgent), the tool *)
(* executor and the request handlers of the web application.               *)
(*                                                                         *)
(* Text is a sequence of tokens.  The tokens that the code inspects are    *)
(* kept apart: the completion marker word, the colon, the blank and the    *)
(* word "Error"; every other token is an opaque piece of text.             *)
(***************************************************************************)
EXTENDS Integers, Sequences, FiniteSets, TLC

MARK == "PPT_GENERATION_COMPLETE"
COLON == ":"
SP == " "
QUOTE == "\""
None == "None"

(* ---------------------------------------------------------------- text *)

\* "PPT_GENERATION_COMPLETE" in content
ContainsMark(t) == \E i \in 1..Len(t) : t[i] = MARK

\* result.startswith("Error:")
StartsWithError(t) == Len(t) >= 2 /\ t[1] = "Error" /\ t[2] = COLON

\* positions where the separator "PPT_GENERATION_COMPLETE:" starts
SepAt(t) == {i \in 1..(Len(t) - 1) : t[i] = MARK /\ t[i + 1] = COLON}

Min(S) == CHOOSE x \in S : \A y \in S : x <= y

\* the first position from `from` on where token k stands, 0 when none
FirstFrom(t, k, from) ==
    IF \E i \in from..Len(t) : t[i] = k
    THEN Min({i \in from..Len(t) : t[i] = k})
    ELSE 0

\* the piece between the separator that starts at a and the next separator
PieceAfter(t, a, later) ==
    SubSeq(t, a + 2, (IF later = {} THEN Len(t) + 1 ELSE Min(later)) - 1)

\* content.split("PPT_GENERATION_COMPLETE:")[1]; ok is FALSE ("IndexError")
\* when the separator does not occur
SplitAt(t, a) == [ok |-> TRUE, text |-> PieceAfter(t, a, {i \in SepAt(t) : i >= a + 2})]
SplitSecond(t) ==
    IF SepAt(t) = {} THEN [ok |-> FALSE, text |-> <<>>] ELSE SplitAt(t, Min(SepAt(t)))

RECURSIVE LStrip(_)
LStrip(t) == IF t # <<>> /\ Head(t) = SP THEN LStrip(Tail(t)) ELSE t

RECURSIVE RStrip(_)
RStrip(t) == IF t # <<>> /\ t[Len(t)] = SP THEN RStrip(SubSeq(t, 1, Len(t) - 1)) ELSE t

\* str.strip()
Strip(t) == RStrip(LStrip(t))


NumTok(n) == CASE n = 0 -> "0" [] n = 1 -> "1" [] n = 2 -> "2" [] n = 3 -> "3" [] n = 4 -> "4" [] OTHER -> "9"
BoolTok(b) == IF b THEN "true" ELSE "false"

(* ---------------------------------------------------------------- json *)

\* json.dumps writes a quote inside a string as \" and a backslash as \\ ;
\* json.loads reads them back
Escape(t) ==
    [i \in 1..Len(t) |->
        IF t[i] = QUOTE THEN "\\\"" ELSE IF t[i] = "\\" THEN "\\\\" ELSE t[i]]
Unescape(t) ==
    [i \in 1..Len(t) |->
        IF t[i] = "\\\"" THEN QUOTE ELSE IF t[i] = "\\\\" THEN "\\" ELSE t[i]]

\* json.dumps of the result dictionary of return_ppt_result
Dumps(r) ==
    <<"{", "\"success\":", BoolTok(r.success), "\"message\":", QUOTE>> \o Escape(r.message)
        \o <<QUOTE, "\"slide_count\":", NumTok(r.slide_count), "\"slide_files\":", "[">>
        \o r.slide_files \o <<"]", "}">>

TokNum(s) == CASE s = "0" -> 0 [] s = "1" -> 1 [] s = "2" -> 2 [] s = "3" -> 3 [] OTHER -> 9

\* the dictionary read from t, whose message ends before the quote at q and
\* whose file list ends before the bracket at c
LoadsAt(t, q, c) ==
    IF /\ Len(t) >= 12
       /\ t[1] = "{" /\ t[2] = "\"success\":" /\ t[3] \in {"true", "false"}
       /\ t[4] = "\"message\":" /\ t[5] = QUOTE
       /\ q # 0 /\ Len(t) >= q + 6
       /\ t[q + 1] = "\"slide_count\":" /\ t[q + 2] \in {"0", "1", "2", "3"}
       /\ t[q + 3] = "\"slide_files\":" /\ t[q + 4] = "["
       /\ c # 0 /\ Len(t) = c + 1 /\ t[c + 1] = "}"
    THEN [kind |-> "dict",
          val |-> [success |-> (t[3] = "true"),
                   message |-> Unescape(SubSeq(t, 6, q - 1)),
                   slide_count |-> TokNum(t[q + 2]),
                   slide_files |-> SubSeq(t, q + 5, c - 1)]]
    ELSE [kind |-> "invalid"]

LoadsFrom(t, q) == LoadsAt(t, q, FirstFrom(t, "]", q + 5))

\* json.loads of a text: a dictionary with the four keys, another JSON value
\* ("other": a list, a number, a boolean), or "invalid" (JSONDecodeError)
Loads(t) ==
    IF t = <<"[", "]">> \/ (Len(t) = 1 /\ t[1] \in {"0", "1", "2", "3", "true", "false"})
    THEN [kind |-> "other"]
    ELSE LoadsFrom(t, FirstFrom(t, QUOTE, 6))

(* ------------------------------------------------------- tool executor *)

RegisteredTools ==
    {"create_folder", "create_file", "read_file", "update_file", "list_files",
     "return_ppt_result"}

\* The filesystem below base_path: the directories, the documents with
\* their contents, the other files (screenshots and composites), kept by
\* their paths, and the directories under exports/ that a title with
\* separators names (nested), kept by their paths as well.
NoFile == <<"<absent>">>
ParentOf(p) == "slides"
Exists(fs, p) == fs.files[p] # NoFile

Has(input, k) == k \in DOMAIN input

\* What a handler yields: exc = the key whose lookup raised KeyError before
\* the handler's own try block (None when nothing escaped), else the text
\* returned and the filesystem left behind; failed tells whether the
\* operation failed.  io names the system calls the operating system
\* refuses (the exception the handler's try catches): "none", every call
\* ("all"), the opening of a file ("open", as for a file that may not be
\* accessed) or the writing of data ("write", as on a full disk).  A
\* refused call raises whether or not the path exists: read_file opens the
\* file before anything tells it is absent, and update_file asks the
\* operating system for the file ("stat") before it opens it.
IoFaults == {"none", "all", "open", "write"}
Refused(io, call) == io = "all" \/ io = call
Raised(k, fs) == [exc |-> k, text |-> <<>>, fs |-> fs, failed |-> TRUE]
Returned(t, fs) == [exc |-> None, text |-> t, fs |-> fs, failed |-> FALSE]
\* a text returned from an except clause or a missing-path branch
Failure(t, fs) == [exc |-> None, text |-> t, fs |-> fs, failed |-> TRUE]

\* Text files: CR is a carriage return and SURROGATE a character that utf-8
\* cannot encode.  f.write(content) raises on such a character, after
\* open(file_path, 'w') emptied the file; a refused write of data likewise
\* leaves the file empty, and no data is written for an empty content.
CR == "\r"
SURROGATE == "U+D800"
Encodable(content) == \A i \in 1..Len(content) : content[i] # SURROGATE

\* f.read() of a file opened in text mode: "\r\n" and "\r" are read as "\n"
RECURSIVE ReadText(_)
ReadText(t) ==
    IF t = <<>> THEN <<>>
    ELSE IF Head(t) = CR
    THEN <<"\n">> \o ReadText(IF Len(t) >= 2 /\ t[2] = "\n" THEN Tail(Tail(t)) ELSE Tail(t))
    ELSE <<Head(t)>> \o ReadText(Tail(t))

create_folder(input, fs, io) ==
    IF ~Has(input, "folder_path") THEN Raised("folder_path", fs)
    ELSE IF Refused(io, "mkdir")
         THEN Failure(<<"Error", SP, "creating folder", COLON, SP, "EIO">>, fs)
         ELSE Returned(<<"Successfully created folder", COLON, SP, input.folder_path>>,
                       [fs EXCEPT !.dirs = @ \cup {input.folder_path}])

create_file(input, fs, io) ==
    IF ~Has(input, "file_path") THEN Raised("file_path", fs)
    ELSE IF ~Has(input, "content") THEN Raised("content", fs)
    ELSE IF Refused(io, "mkdir")
         THEN Failure(<<"Error", SP, "creating file", COLON, SP, "EIO">>, fs)
    ELSE IF Refused(io, "open")
         THEN Failure(<<"Error", SP, "creating file", COLON, SP, "EIO">>,
                      [fs EXCEPT !.dirs = @ \cup {ParentOf(input.file_path)}])
    ELSE IF ~Encodable(input.content)
         THEN Failure(<<"Error", SP, "creating file", COLON, SP, "UnicodeEncodeError">>,
                      [fs EXCEPT !.dirs = @ \cup {ParentOf(input.file_path)},
                                 !.files[input.file_path] = <<>>])
    ELSE IF Refused(io, "write") /\ input.content # <<>>
         THEN Failure(<<"Error", SP, "creating file", COLON, SP, "EIO">>,
                      [fs EXCEPT !.dirs = @ \cup {ParentOf(input.file_path)},
                                 !.files[input.file_path] = <<>>])
         ELSE Returned(<<"Successfully created file", COLON, SP, input.file_path,
                         SP, "(", NumTok(Len(input.content)), SP, "characters)">>,
                       [fs EXCEPT !.dirs = @ \cup {ParentOf(input.file_path)},
                                  !.files[input.file_path] = input.content])

read_file(input, fs, io) ==
    IF ~Has(input, "file_path") THEN Raised("file_path", fs)
    ELSE IF Refused(io, "open")
    THEN Failure(<<"Error", SP, "reading file", COLON, SP, "EIO">>, fs)
    ELSE IF ~Exists(fs, input.file_path)
         THEN Failure(<<"Error", COLON, SP, "File not found", COLON, SP, input.file_path>>, fs)
         ELSE Returned(<<"File contents of", SP, input.file_path, COLON, "\n\n">>
                           \o ReadText(fs.files[input.file_path]), fs)

update_file(input, fs, io) ==
    IF ~Has(input, "file_path") THEN Raised("file_path", fs)
    ELSE IF ~Has(input, "content") THEN Raised("content", fs)
    ELSE IF Refused(io, "stat")
    THEN Failure(<<"Error", SP, "updating file", COLON, SP, "EIO">>, fs)
    ELSE IF ~Exists(fs, input.file_path)
    THEN Failure(<<"Error", COLON, SP, "File does not exist", COLON, SP, input.file_path,
                    ".", SP, "Use create_file instead.">>, fs)
    ELSE IF Refused(io, "open")
         THEN Failure(<<"Error", SP, "updating file", COLON, SP, "EIO">>, fs)
    ELSE IF ~Encodable(input.content)
         THEN Failure(<<"Error", SP, "updating file", COLON, SP, "UnicodeEncodeError">>,
                      [fs EXCEPT !.files[input.file_path] = <<>>])
    ELSE IF Refused(io, "write") /\ input.content # <<>>
         THEN Failure(<<"Error", SP, "updating file", COLON, SP, "EIO">>,
                      [fs EXCEPT !.files[input.file_path] = <<>>])
    ELSE Returned(<<"Successfully updated file", COLON, SP, input.file_path,
                    SP, "(", NumTok(Len(input.content)), SP, "characters)">>,
                  [fs EXCEPT !.files[input.file_path] = input.content])

\* the paths the model's filesystem can hold, in sorted order
PathList == <<"slides/a.html", "slides/m.html", "slides/n.html">>
PathSet == {PathList[i] : i \in 1..Len(PathList)}

\* the screenshots and composites the sessions can leave on disk, in sorted
\* order
OtherList ==
    << <<"exports", "/", "Q1", ".pptx">>, <<"exports", "/", "Q4", "_", "Plan", ".pptx">>,
       <<"screenshots", "/", "slide_", "1", ".png">>,
       <<"screenshots", "/", "slide_", "2", ".png">>,
       <<"screenshots", "/", "slide_", "3", ".png">>,
       <<"screenshots", "/", "slide_", "4", ".png">> >>

FilesIn(fs, d) == {i \in 1..Len(PathList) : Exists(fs, PathList[i]) /\ ParentOf(PathList[i]) = d}
OthersIn(fs, d) == {i \in 1..Len(OtherList) : OtherList[i] \in fs.other /\ OtherList[i][1] = d}

\* "\n".join(f"  - {f}" for f in files), files sorted
RECURSIVE Listing(_, _)
Listing(fs, i) ==
    IF i > Len(PathList) THEN <<>>
    ELSE (IF Exists(fs, PathList[i])
          THEN (IF \E j \in 1..(i - 1) : Exists(fs, PathList[j]) THEN <<"\n">> ELSE <<>>)
                   \o <<SP, SP, "-", SP, PathList[i]>>
          ELSE <<>>) \o Listing(fs, i + 1)
RECURSIVE ListingOthers(_, _, _)
ListingOthers(fs, d, i) ==
    IF i > Len(OtherList) THEN <<>>
    ELSE (IF i \in OthersIn(fs, d)
          THEN (IF \E j \in OthersIn(fs, d) : j < i THEN <<"\n">> ELSE <<>>)
                   \o <<SP, SP, "-", SP>> \o OtherList[i]
          ELSE <<>>) \o ListingOthers(fs, d, i + 1)

list_files(input, fs, io) ==
    LET directory == IF Has(input, "directory") THEN input.directory ELSE "slides"
    IN  IF Refused(io, "iterdir")
        THEN Failure(<<"Error", SP, "listing files", COLON, SP, "EIO">>, fs)
        ELSE IF directory \notin fs.dirs
        THEN Failure(<<"Directory does not exist", COLON, SP, directory>>, fs)
        ELSE IF FilesIn(fs, directory) = {} /\ OthersIn(fs, directory) = {}
        THEN Returned(<<"No files found in", SP, directory>>, fs)
        ELSE Returned(<<"Files in", SP, directory, COLON, "\n">>
                          \o (IF FilesIn(fs, directory) # {} THEN Listing(fs, 1)
                              ELSE ListingOthers(fs, directory, 1)), fs)

ResultKeys == <<"success", "message", "slide_count", "slide_files">>

return_ppt_result(input, fs, io) ==
    LET missing == {i \in 1..Len(ResultKeys) : ~Has(input, ResultKeys[i])}
    IN  IF missing # {} THEN Raised(ResultKeys[Min(missing)], fs)
        ELSE Returned(<<MARK, COLON, SP>> \o
                          Dumps([success |-> input.success, message |-> input.message,
                                 slide_count |-> input.slide_count,
                                 slide_files |-> input.slide_files]), fs)

\* the handler tool_map[tool_name] applied to the input
Handler(name, input, fs, io) ==
    CASE name = "create_folder" -> create_folder(input, fs, io)
      [] name = "create_file" -> create_file(input, fs, io)
      [] name = "read_file" -> read_file(input, fs, io)
      [] name = "update_file" -> update_file(input, fs, io)
      [] name = "list_files" -> list_files(input, fs, io)
      [] name = "return_ppt_result" -> return_ppt_result(input, fs, io)

\* the except clause of execute_tool around the handler
Caught(name, r) ==
    IF r.exc # None
    THEN [text |-> <<"Error", SP, "executing", SP, name, COLON, SP, "'", r.exc, "'">>,
          fs |-> r.fs, failed |-> TRUE]
    ELSE [text |-> r.text, fs |-> r.fs, failed |-> r.failed]

\* execute_tool: [text, fs, failed]; it never raises
execute_tool(name, input, fs, io) ==
    IF name \notin RegisteredTools
    THEN [text |-> <<"Error", COLON, SP, "Unknown tool", SP, "'", name, "'">>, fs |-> fs,
          failed |-> TRUE]
    ELSE Caught(name, Handler(name, input, fs, io))

(* ------------------------------------------------------------ PPTAgent *)

max_iterations == 30

\* the result dictionaries the loop builds itself
MaxIterationsResult ==
    [success |-> FALSE, message |-> <<"Max iterations reached without completion">>,
     slide_count |-> 0, slide_files |-> <<>>]
StoppedResult(text) ==
    [success |-> FALSE, message |-> <<"Agent stopped unexpectedly", COLON, SP>> \o text,
     slide_count |-> 0, slide_files |-> <<>>]
CouldNotExtractResult ==
    [success |-> FALSE, message |-> <<"Could not extract final result">>,
     slide_count |-> 0, slide_files |-> <<>>]
NoResult == [none |-> TRUE]

IsToolUse(b) == b.type = "tool_use"

\* a tool_result entry that does not carry the identifier of its call
ToolResultUnlinked(block, text) ==
    [type |-> "tool_result", tool_use_id |-> 0, content |-> text,
     is_error |-> StartsWithError(text)]

\* the tool_result entry _process_tool_use builds from a result text
ToolResult(block, text) ==
    [type |-> "tool_result", tool_use_id |-> block.id, content |-> text,
     is_error |-> StartsWithError(text)]

\* the record of one execute_tool call: what was called, whether it failed
\* and whether it changed the filesystem
Call(block, r, f) ==
    [id |-> block.id, name |-> block.name, failed |-> r.failed, changed |-> r.fs # f]

Cons(block, r, f, rest) ==
    [results |-> <<ToolResult(block, r.text)>> \o rest.results,
     fs |-> rest.fs,
     calls |-> <<Call(block, r, f)>> \o rest.calls]

\* _process_tool_use: one tool_result per tool_use block, in block order;
\* calls is the order in which execute_tool was called
RECURSIVE ProcessFrom(_, _, _, _)
\* a loop over the blocks that calls execute_tool a second time when the
\* first call failed
ProcessRestRetrying(content, i, r, f, io) ==
    [results |-> <<ToolResult(content[i], r.text)>>
                     \o ProcessFrom(content, i + 1, r.fs, io).results,
     fs |-> ProcessFrom(content, i + 1, r.fs, io).fs,
     calls |-> (IF r.failed THEN <<Call(content[i], r, f)>> ELSE <<>>)
                   \o <<Call(content[i], r, f)>>
                   \o ProcessFrom(content, i + 1, r.fs, io).calls]
ProcessRest(content, i, r, f, io) ==
    Cons(content[i], r, f, ProcessFrom(content, i + 1, r.fs, io))
ProcessFrom(content, i, f, io) ==
    IF i > Len(content) THEN [results |-> <<>>, fs |-> f, calls |-> <<>>]
    ELSE IF ~IsToolUse(content[i]) THEN ProcessFrom(content, i + 1, f, io)
    ELSE ProcessRest(content, i, execute_tool(content[i].name, content[i].input, f, io), f, io)

ProcessToolUse(content, f, io) == ProcessFrom(content, 1, f, io)

\* _is_generation_complete
IsGenerationComplete(results) == \E i \in 1..Len(results) : ContainsMark(results[i].content)

\* json.loads of the stripped piece, as _extract_final_result returns it
Parsed(v) ==
    IF v.kind = "invalid" THEN [exc |-> "JSONDecodeError", kind |-> "none", val |-> NoResult]
    ELSE IF v.kind = "other" THEN [exc |-> None, kind |-> "other", val |-> NoResult]
    ELSE [exc |-> None, kind |-> "dict", val |-> v.val]

ExtractFrom(s) ==
    IF ~s.ok THEN [exc |-> "IndexError", kind |-> "none", val |-> NoResult]
    ELSE Parsed(Loads(Strip(s.text)))

\* _extract_final_result: exc names the exception that escapes it
ExtractFinalResult(results) ==
    IF \A i \in 1..Len(results) : ~ContainsMark(results[i].content)
    THEN [exc |-> None, kind |-> "dict", val |-> CouldNotExtractResult]
    ELSE ExtractFrom(SplitSecond(
             results[Min({i \in 1..Len(results) : ContainsMark(results[i].content)})].content))

\* presentation_title.replace(' ', '_')
ReplaceSpaces(t) == [i \in 1..Len(t) |-> IF t[i] = SP THEN "_" ELSE t[i]]

\* What the machine does to one export: launch = FALSE when the browser
\* cannot be started; docs[p] tells whether document p is "missing", is
\* "unrenderable" (the page raises) or is captured ("ok"); picture = FALSE
\* when add_picture raises; save = FALSE when the composite cannot be written.
DocStatus == {"ok", "missing", "unrenderable"}

\* a capture loop that stops at the first document it cannot capture
RECURSIVE CaptureFromAborting(_, _, _)
CaptureFromAborting(slide_files, i, env) ==
    IF i > Len(slide_files) \/ env.docs[slide_files[i]] # "ok" THEN <<>>
    ELSE <<i>> \o CaptureFromAborting(slide_files, i + 1, env)

\* capture_slide_screenshots: the screenshots taken, in the order of
\* slide_files; screenshot i stands for "screenshots/slide_<i>.png"
RECURSIVE CaptureFrom(_, _, _)
CaptureFrom(slide_files, i, env) ==
    IF i > Len(slide_files) THEN <<>>
    ELSE (IF env.docs[slide_files[i]] = "ok" THEN <<i>> ELSE <<>>)
             \o CaptureFrom(slide_files, i + 1, env)
capture_slide_screenshots(slide_files, env) ==
    IF env.launch THEN [exc |-> None, screenshots |-> CaptureFrom(slide_files, 1, env)]
    ELSE [exc |-> "Error", screenshots |-> <<>>]

\* a capture loop that names an image by its rank among the captured ones
RECURSIVE CaptureLoopRanked(_, _, _, _, _)
CaptureLoopRanked(slide_files, i, env, progress_callback, acc) ==
    IF i > Len(slide_files) THEN acc
    ELSE CaptureLoopRanked(slide_files, i + 1, env, progress_callback,
             IF env.docs[slide_files[i]] = "ok"
             THEN [screenshots |-> Append(acc.screenshots, Len(acc.screenshots) + 1),
                   events |-> IF progress_callback
                              THEN Append(acc.events,
                                          [event |-> "screenshot_captured",
                                           slide_number |-> Len(acc.screenshots) + 1,
                                           total_slides |-> Len(slide_files),
                                           filename |-> Len(acc.screenshots) + 1])
                              ELSE acc.events]
             ELSE acc)

\* the loop of capture_slide_screenshots from document i on: acc holds the
\* screenshots appended and the calls of progress_callback made so far;
\* filename i stands for "slide_<i>.png"
RECURSIVE CaptureLoop(_, _, _, _, _)
CaptureLoop(slide_files, i, env, progress_callback, acc) ==
    IF i > Len(slide_files) THEN acc
    ELSE CaptureLoop(slide_files, i + 1, env, progress_callback,
             IF env.docs[slide_files[i]] = "ok"
             THEN [screenshots |-> Append(acc.screenshots, i),
                   events |-> IF progress_callback
                              THEN Append(acc.events,
                                          [event |-> "screenshot_captured",
                                           slide_number |-> i,
                                           total_slides |-> Len(slide_files),
                                           filename |-> i])
                              ELSE acc.events]
             ELSE acc)

\* capture_slide_screenshots with its progress_callback argument: the list
\* returned and the events the callback was handed
CaptureSlideScreenshots(slide_files, env, progress_callback) ==
    IF env.launch
    THEN [exc |-> None] @@ CaptureLoop(slide_files, 1, env, progress_callback,
                                         [screenshots |-> <<>>, events |-> <<>>])
    ELSE [exc |-> "Error", screenshots |-> <<>>, events |-> <<>>]

\* Path(s): the components of path s from token i on, cur being the one
\* being read; empty components and "." components are dropped, ".." is kept
RECURSIVE PartsFrom(_, _, _)
PartsFrom(s, i, cur) ==
    IF i > Len(s) THEN (IF cur = <<>> \/ cur = <<".">> THEN <<>> ELSE <<cur>>)
    ELSE IF s[i] = "/"
    THEN (IF cur = <<>> \/ cur = <<".">> THEN <<>> ELSE <<cur>>) \o PartsFrom(s, i + 1, <<>>)
    ELSE PartsFrom(s, i + 1, Append(cur, s[i]))
PathParts(s) == PartsFrom(s, 1, <<>>)

\* str(path): the components joined by the separator
RECURSIVE PathStr(_)
PathStr(parts) ==
    IF parts = <<>> THEN <<".">>
    ELSE IF Len(parts) = 1 THEN parts[1]
    ELSE parts[1] \o <<"/">> \o PathStr(Tail(parts))

\* f"exports/{presentation_title.replace(' ', '_')}.pptx"
OutputFile(title) == <<"exports", "/">> \o ReplaceSpaces(title) \o <<".pptx">>

\* create_pptx_from_screenshots: one page per screenshot found among the
\* images on disk, blank when its picture could not be added; then the save
RECURSIVE PagesFrom(_, _, _, _)
PagesFrom(screenshots, i, images, env) ==
    IF i > Len(screenshots) THEN <<>>
    ELSE (IF screenshots[i] \in images
          THEN <<[screenshot |-> screenshots[i], picture |-> env.picture]>>
          ELSE <<>>) \o PagesFrom(screenshots, i + 1, images, env)
create_pptx_from_screenshots(screenshots, output_file, images, env) ==
    IF env.save
    THEN [exc |-> None, file |-> PathStr(PathParts(output_file)),
          pages |-> PagesFrom(screenshots, 1, images, env)]
    ELSE [exc |-> "Error", file |-> None, pages |-> <<>>]

\* _export_to_pptx without the test for an empty list of screenshots
ExportUnguarded(result, title, env) ==
    LET cap == capture_slide_screenshots(result.slide_files, env)
        made == create_pptx_from_screenshots(
                    cap.screenshots, OutputFile(title),
                    {cap.screenshots[i] : i \in 1..Len(cap.screenshots)}, env)
    IN  IF cap.exc # None
        THEN [result |-> result, assembled |-> FALSE, written |-> FALSE, pages |-> <<>>]
        ELSE IF made.exc # None
        THEN [result |-> result, assembled |-> TRUE, written |-> FALSE, pages |-> <<>>]
        ELSE [result |-> [success |-> result.success, message |-> result.message,
                          slide_count |-> result.slide_count,
                          slide_files |-> result.slide_files,
                          pptx_file |-> made.file, screenshots |-> cap.screenshots],
              assembled |-> TRUE, written |-> TRUE, pages |-> made.pages]

\* _export_to_pptx: the result returned, whether the assembly stage was run,
\* whether the composite was written and the pages it holds
Export(result, title, env) ==
    LET cap == capture_slide_screenshots(result.slide_files, env)
        made == create_pptx_from_screenshots(
                    cap.screenshots, OutputFile(title),
                    {cap.screenshots[i] : i \in 1..Len(cap.screenshots)}, env)
    IN  IF cap.exc # None \/ cap.screenshots = <<>>
        THEN [result |-> result, assembled |-> FALSE, written |-> FALSE, pages |-> <<>>]
        ELSE IF made.exc # None
        THEN [result |-> result, assembled |-> TRUE, written |-> FALSE, pages |-> <<>>]
        ELSE [result |-> [success |-> result.success, message |-> result.message,
                          slide_count |-> result.slide_count,
                          slide_files |-> result.slide_files,
                          pptx_file |-> made.file, screenshots |-> cap.screenshots],
              assembled |-> TRUE, written |-> TRUE, pages |-> made.pages]

\* what the browser does in the export of a generation session: it does not
\* start ("raise"), it starts and no page can be rendered ("empty"), it
\* renders every document found on disk ("ok")
ExportOutcomes == {"raise", "empty", "ok"}
EnvOf(outcome, fs) ==
    [launch |-> outcome # "raise",
     docs |-> [p \in PathSet |-> IF ~Exists(fs, p) THEN "missing"
                                 ELSE IF outcome = "ok" THEN "ok" ELSE "unrenderable"],
     picture |-> TRUE, save |-> TRUE]

\* _export_to_pptx as generate_presentation calls it
ExportToPptx(result, title, outcome, fs) == Export(result, title, EnvOf(outcome, fs)).result

\* str(output_path / f"slide_{i}.png")
ScreenshotFile(i) == <<"screenshots", "/", "slide_", NumTok(i), ".png">>

\* What capture_slide_screenshots leaves on disk: screenshots/ is made
\* before the browser is started, and one image is written per document
\* captured.
CaptureFs(fs, slide_files, env) ==
    LET cap == capture_slide_screenshots(slide_files, env)
    IN  [fs EXCEPT !.dirs = @ \cup {"screenshots"},
                   !.other = @ \cup {ScreenshotFile(cap.screenshots[i]) :
                                        i \in 1..Len(cap.screenshots)}]

\* The operating system's reading of a path: a ".." component leaves the
\* directory named before it; one that leaves the working directory is kept.
IsUp(part) == part = <<"..">> \/ part = <<".", ".">>
RECURSIVE ResolveFrom(_, _, _)
ResolveFrom(parts, i, acc) ==
    IF i > Len(parts) THEN acc
    ELSE IF IsUp(parts[i])
    THEN ResolveFrom(parts, i + 1,
                     IF acc # <<>> /\ ~IsUp(acc[Len(acc)])
                     THEN SubSeq(acc, 1, Len(acc) - 1) ELSE Append(acc, <<"..">>))
    ELSE ResolveFrom(parts, i + 1, Append(acc, parts[i]))
Resolved(parts) == ResolveFrom(parts, 1, <<>>)

\* a path that names something below the working directory
Below(parts) == parts # <<>> /\ ~IsUp(parts[1])

\* output_path.parent.mkdir(exist_ok=True, parents=True): every directory
\* on the way to the composite exists afterwards
MadeDirs(output_file) ==
    {d \in {Resolved(SubSeq(PathParts(output_file), 1, k)) :
                k \in 1..(Len(PathParts(output_file)) - 1)} : Below(d)}
\* a directory named by one word is kept in dirs, by that word; any other
\* one in nested, by its path
OneWord(d) == Len(d) = 1 /\ Len(d[1]) = 1

\* What _export_to_pptx leaves on disk: what the capture left, and when an
\* image was captured the directories on the way to the composite and,
\* saved, the composite.
ExportFs(fs, result, title, env) ==
    LET done == Export(result, title, env)
        made == IF done.assembled THEN MadeDirs(OutputFile(title)) ELSE {}
        file == Resolved(PathParts(OutputFile(title)))
    IN  [CaptureFs(fs, result.slide_files, env) EXCEPT
            !.dirs = @ \cup {d[1][1] : d \in {m \in made : OneWord(m)}},
            !.nested = @ \cup {PathStr(d) : d \in {m \in made : ~OneWord(m)}},
            !.other = @ \cup (IF done.written /\ Below(file) THEN {PathStr(file)} ELSE {})]

\* what the export of a session met: the browser did not start, nothing was
\* captured, the composite was made
Met(result, outcome, fs) ==
    IF outcome = "raise" THEN "raise"
    ELSE IF capture_slide_screenshots(result.slide_files, EnvOf(outcome, fs)).screenshots = <<>>
    THEN "empty"
    ELSE "ok"

\* the text blocks of a response, concatenated
RECURSIVE TextOf(_)
TextOf(content) ==
    IF content = <<>> THEN <<>>
    ELSE (IF Head(content).type = "text" THEN Head(content).text ELSE <<>>)
             \o TextOf(Tail(content))

\* the call identifiers the model gives the tool_use blocks of one response
WithIds(content, it) ==
    [i \in 1..Len(content) |->
        IF IsToolUse(content[i]) THEN [content[i] EXCEPT !.id = it * 10 + i] ELSE content[i]]

(* ------------------------------------------------ the model's responses *)

TU(name, input) == [type |-> "tool_use", id |-> 0, name |-> name, input |-> input]
TXT(t) == [type |-> "text", text |-> t]
Resp(stop, content, io) == [stop |-> stop, content |-> content, io |-> io]

FileA == "slides/a.html"
FileM == "slides/m.html"
FileN == "slides/n.html"
Html == <<"<html>">>
Html2 == <<"<html>", "v2">>

PayloadOk == [success |-> TRUE, message |-> <<"done">>, slide_count |-> 1, slide_files |-> <<FileA>>]
PayloadNoFiles == [success |-> TRUE, message |-> <<"done">>, slide_count |-> 0, slide_files |-> <<>>]
PayloadFail == [success |-> FALSE, message |-> <<"gave", SP, "up">>, slide_count |-> 0, slide_files |-> <<>>]
\* a file whose text holds a serialized payload behind the marker
Forged == [success |-> TRUE, message |-> <<"forged">>, slide_count |-> 2, slide_files |-> <<FileM>>]
MarkedContent == <<"<p>", MARK, COLON, SP>> \o Dumps(Forged)
\* a file whose text holds the marker before a JSON list
ListContent == <<MARK, COLON, SP, "[", "]">>
\* a terminal payload whose message holds the marker and its colon
PayloadMarked ==
    [success |-> TRUE, message |-> <<"see", SP, MARK, COLON>>, slide_count |-> 1,
     slide_files |-> <<FileA>>]

\* the calls a generation response is built from
CallCreateFolder == TU("create_folder", [folder_path |-> "exports"])
CallCreateFile == TU("create_file", [file_path |-> FileA, content |-> Html])
CallReadA == TU("read_file", [file_path |-> FileA])
CallReadM == TU("read_file", [file_path |-> FileM])
CallUpdateA == TU("update_file", [file_path |-> FileA, content |-> Html2])
CallUpdateM == TU("update_file", [file_path |-> FileM, content |-> Html2])
CallList == TU("list_files", <<>>)
CallListExports == TU("list_files", [directory |-> "exports"])
CallReturn(p) == TU("return_ppt_result", p)

\* The responses the generation model may give.  The first is the default
\* one; the others are the special ones a session script may hold.
GenResponses ==
    << Resp("tool_use", <<CallList>>, "none"),
       \* filesystem tools, well-formed input
       Resp("tool_use", <<CallCreateFile>>, "none"),
       Resp("tool_use", <<CallListExports, CallCreateFolder>>, "none"),
       Resp("tool_use", <<CallReadA, CallUpdateA>>, "none"),
       Resp("tool_use", <<CallReadM>>, "none"),
       Resp("tool_use", <<CallUpdateM, CallReadM>>, "none"),
       \* the operating system refuses every operation
       Resp("tool_use", <<CallCreateFolder, CallCreateFile, CallReadM, CallUpdateM, CallList>>,
            "all"),
       \* a required input key is missing
       Resp("tool_use", <<TU("create_folder", <<>>), TU("create_file", [file_path |-> FileA]),
                          TU("read_file", <<>>), TU("update_file", [content |-> Html2]),
                          CallReturn([success |-> TRUE, message |-> <<"done">>])>>, "none"),
       \* the terminal result
       Resp("tool_use", <<CallReturn(PayloadOk)>>, "none"),
       Resp("tool_use", <<CallReturn(PayloadNoFiles)>>, "none"),
       Resp("tool_use", <<CallReturn(PayloadFail)>>, "none"),
       \* tool names outside the registry
       Resp("tool_use", <<TU("web_search", <<>>)>>, "none"),
       Resp("tool_use", <<TU(MARK, <<>>)>>, "none"),
       \* the terminal result among other blocks
       Resp("tool_use", <<TXT(<<"thinking">>), CallCreateFile, CallReturn(PayloadOk)>>, "none"),
       Resp("tool_use", <<CallReturn(PayloadOk), CallCreateFile>>, "none"),
       Resp("tool_use", <<CallReturn(PayloadFail), CallReturn(PayloadOk)>>, "none"),
       \* no tool use requested
       Resp("end_turn", <<TXT(<<"all", SP, "done">>)>>, "none"),
       Resp("max_tokens", <<TXT(<<"cut">>), CallCreateFile>>, "none"),
       \* the request itself fails
       Resp("error", <<>>, "none"),
       \* marker-bearing results that do not parse into a payload
       Resp("tool_use", <<TU("read_file", [file_path |-> FileN])>>, "none"),
       Resp("tool_use", <<CallReturn(PayloadMarked)>>, "none"),
       \* the disk is full; files may not be opened
       Resp("tool_use", <<CallCreateFile, CallUpdateM, CallReadM>>, "write"),
       Resp("tool_use", <<CallCreateFile, CallUpdateM, CallReadM>>, "open") >>

DefaultResponse == 1

\* the inputs of generate_presentation
Topic == <<"Q4", SP, "Plan">>
PptDataInputs ==
    << [ppt_topic |-> Topic, ppt_description |-> <<"d">>, ppt_details |-> <<"x">>],
       [ppt_description |-> <<"d">>, ppt_details |-> <<"x">>] >>

\* how many special (non-default) responses one run may hold
MaxSpecial == 1

(* ------------------------------------------------- the web app: objects *)

\* The requests to /api/chat and /api/chat/stream that carry the cookie of
\* one browser session, in arrival order.  The dictionary chat_sessions is
\* empty when the server starts, while the cookie, signed with the key of
\* app.py line 22, outlives the server.
MaxRequests == 2
Reqs == 1..MaxRequests
\* tool-use responses the chat model gives while one request is served
MaxRounds == 1

\* Objects are named by numbers.  Request r may build a session dictionary
\* (r) with its MainChat (SessionObj(r)).  Every MainChat starts with a list
\* of its own (InitialList); start_conversation builds a new list
\* (StartList).
SessionObj(r) == r
ObjIds == 1..MaxRequests
InitialList(o) == o
StartList(r) == MaxRequests + r
ListIds == 1..(2 * MaxRequests)

\* no turn is waiting to be appended
NoTurn == [role |-> "none", content |-> <<>>]

\* the locals of a request handler and of its generator
NewRequest ==
    [pc |-> "idle", kind |-> "none", dict |-> 0, first |-> FALSE, obj |-> 0, it |-> 0,
     status |-> 0, response |-> <<>>, error |-> <<>>, appended |-> {},
     pending |-> NoTurn, next |-> "none", frames |-> <<>>]

\* Browser sessions, each with its own cookie and its own entry of
\* chat_sessions, send requests to /api/chat, /api/download and /api/reset.
MaxSessions == 2
Sessions == 1..MaxSessions
\* requests to /api/chat one browser session sends
MaxChats == 2
\* the ticks of the server's clock
MaxClock == 3

\* the topics the chat model may pass to generate_ppt and the paths their
\* composites are saved at
ExportTopics == {Topic, <<"Q1">>}
ExportPaths == {PathStr(PathParts(OutputFile(t))) : t \in ExportTopics}
NoPath == <<>>
NoComposite == [present |-> FALSE, mtime |-> 0, by |-> 0]
\* a browser session: stored tells whether chat_sessions holds its
\* dictionary, pc where the handler of its chat request is
NoSession ==
    [pc |-> "idle", stored |-> FALSE, session_start_time |-> 0, pptx_file |-> NoPath,
     chats |-> 0]

(* ---------------------------------------------------------------- state *)

VARIABLES
    fs,            \* the filesystem below base_path
    specials,      \* special responses drawn so far
    gpc,           \* generate_presentation: "idle", "loop", "done", "raised"
    ppt_data,      \* its argument
    iteration,     \* its local iteration
    messages,      \* PPTAgent.messages
    final_result,  \* its local final_result, the value returned when gpc = "done"
    requests,      \* model requests issued by the session
    dispatched,    \* execute_tool calls of the session, in order
    exports,       \* _export_to_pptx calls of the session: what each one met
    extracted,     \* what _extract_final_result returned in the session, or
                   \* [unparsed |-> exception] when the marker's text did not parse
    cpc,           \* MainChat: "idle", "loop", "returned", "raised"
    chat_iteration,\* _conversation_loop's local iteration
    chat_messages, \* MainChat.messages
    chat_requests, \* model requests issued by the running _conversation_loop
    chat_return,   \* the string the last entry point returned
    user_messages, \* start_conversation and send_message calls so far
    chat_outcomes, \* how each of them ended: "returned" or "raised"
    chat_sessions, \* app.chat_sessions[session_id]: 0 (absent) or a session dictionary
    session_dicts, \* the session dictionaries: their 'chat' and 'messages' entries
    chat_objects,  \* the MainChat objects: the list their messages attribute names
    transcripts,   \* the transcript lists
    rq,            \* the requests to /api/chat and /api/chat/stream: their locals
    applied,       \* the function last applied on its own, with its input and output
    now,           \* time.time(): the server's clock
    exports_dir,   \* the composites under exports/: modification time and, as a
                   \* ghost, the browser session whose generation run saved it
    web_sessions,  \* the session dictionaries of the browser sessions
    downloads      \* the composites /api/download has served, with the session asking

genVars ==
    <<gpc, ppt_data, iteration, messages, final_result, requests, dispatched, exports,
      extracted>>
chatVars ==
    <<cpc, chat_iteration, chat_messages, chat_requests, chat_return, user_messages,
      chat_outcomes>>
appVars == <<chat_sessions, session_dicts, chat_objects, transcripts, rq>>
pureVars == <<applied>>
dlVars == <<now, exports_dir, web_sessions, downloads>>
vars == <<fs, specials, genVars, chatVars, appVars, pureVars, dlVars>>

InitFs ==
    [dirs |-> {"slides"},
     files |-> [p \in PathSet |->
                   IF p = FileM THEN MarkedContent ELSE IF p = FileN THEN ListContent ELSE NoFile],
     other |-> {}, nested |-> {}]

\* the state after construction, the filesystem apart
InitRest ==
    /\ specials = 0
    /\ gpc = "idle"
    /\ ppt_data = <<>>
    /\ iteration = 0
    /\ messages = <<>>
    /\ final_result = NoResult
    /\ requests = 0
    /\ dispatched = <<>>
    /\ exports = <<>>
    /\ extracted = NoResult
    /\ cpc = "idle"
    /\ chat_iteration = 0
    /\ chat_messages = <<>>
    /\ chat_requests = 0
    /\ chat_return = <<>>
    /\ user_messages = 0
    /\ chat_outcomes = <<>>
    /\ chat_sessions = 0
    /\ session_dicts = [d \in Reqs |-> [chat |-> SessionObj(d), messages |-> <<>>]]
    /\ chat_objects = [o \in ObjIds |-> InitialList(o)]
    /\ transcripts = [l \in ListIds |-> <<>>]
    /\ rq = [r \in Reqs |-> NewRequest]
    /\ applied = [fn |-> "none"]
    /\ now = 0
    /\ exports_dir = [p \in ExportPaths |-> NoComposite]
    /\ web_sessions = [s \in Sessions |-> NoSession]
    /\ downloads = {}

Init == fs = InitFs /\ InitRest

Get(d, k) == IF Has(d, k) THEN d[k] ELSE <<"N/A">>
UserPrompt(d) ==
    <<"Please generate a presentation with the following details", COLON, "\n", "\n",
      "**Topic**", COLON, SP>> \o d.ppt_topic
        \o <<"\n", "\n", "**Description**", COLON, SP>> \o d.ppt_description
        \o <<"\n", "\n", "**Details**", COLON, SP>> \o d.ppt_details
        \o <<"\n", "\n", "**Data/Statistics**", COLON, SP>> \o Get(d, "ppt_data")
        \o <<"\n", "**Brand Colors**", COLON, SP>> \o Get(d, "brand_color_details")
        \o <<"\n", "**Logo Details**", COLON, SP>> \o Get(d, "brand_logo_details")
        \o <<"\n", "**Brand Guidelines**", COLON, SP>> \o Get(d, "brand_guideline_details")
        \o <<"\n">>

\* generate_presentation up to the loop: the prompt is built (KeyError when
\* a required key is missing) and the transcript reset
GenStart(d) ==
    /\ ppt_data' = d
    /\ requests' = 0
    /\ dispatched' = <<>>
    /\ exports' = <<>>
    /\ extracted' = NoResult
    /\ iteration' = 0
    /\ final_result' = NoResult
    /\ IF \E k \in {"ppt_topic", "ppt_description", "ppt_details"} : ~Has(d, k)
       THEN gpc' = "raised" /\ UNCHANGED messages
       ELSE gpc' = "loop" /\ messages' = <<[role |-> "user", content |-> <<TXT(UserPrompt(d))>>]>>

\* `if iteration >= max_iterations` after the loop
AfterLoop(it, result) == IF it >= max_iterations THEN MaxIterationsResult ELSE result

\* what one pass through the while loop leaves: pc "loop" (the loop goes
\* on), "exit" (break or exhaustion) or "raised" (an exception escapes)
\* extracted is what _extract_final_result returned in this pass, if called
Pass(pc, msgs, result, f, calls, exported, parsed) ==
    [pc |-> pc, messages |-> msgs, result |-> result, fs |-> f, calls |-> calls,
     exported |-> exported, extracted |-> parsed]

\* a completion that exports whatever the parsed payload says
CompleteAlwaysExporting(p, x, msgs, outcome, title) ==
    IF x.exc # None \/ x.kind # "dict"
    THEN Pass("raised", msgs, NoResult, p.fs, p.calls, <<>>,
              [unparsed |-> IF x.exc # None THEN x.exc ELSE "AttributeError"])
    ELSE Pass("exit", msgs, ExportToPptx(x.val, title, outcome, p.fs),
              ExportFs(p.fs, x.val, title, EnvOf(outcome, p.fs)), p.calls,
              <<Met(x.val, outcome, p.fs)>>,
              x.val)

\* lines 82-88: the final result is extracted, exported when successful,
\* and the loop is left; an exception of _extract_final_result, or the
\* AttributeError of final_result.get on a value that is no dictionary,
\* escapes generate_presentation
Complete(p, x, msgs, outcome, title) ==
    IF x.exc # None \/ x.kind # "dict"
    THEN Pass("raised", msgs, NoResult, p.fs, p.calls, <<>>,
              [unparsed |-> IF x.exc # None THEN x.exc ELSE "AttributeError"])
    ELSE IF x.val.success /\ x.val.slide_files # <<>>
    THEN Pass("exit", msgs, ExportToPptx(x.val, title, outcome, p.fs),
              ExportFs(p.fs, x.val, title, EnvOf(outcome, p.fs)), p.calls,
              <<Met(x.val, outcome, p.fs)>>,
              x.val)
    ELSE Pass("exit", msgs, x.val, p.fs, p.calls, <<>>, x.val)

\* the tool_use branch under a loop test written with <= : a 31st pass
ToolUseBranchOffByOne(content, p, it, msgs, outcome, title) ==
    IF IsGenerationComplete(p.results)
    THEN Complete(p, ExtractFinalResult(p.results), msgs, outcome, title)
    ELSE Pass(IF it <= max_iterations THEN "loop" ELSE "exit",
              msgs \o <<[role |-> "assistant", content |-> content],
                        [role |-> "user", content |-> p.results]>>,
              NoResult, p.fs, p.calls, <<>>, NoResult)

\* lines 76-99: the tool_use branch
ToolUseBranch(content, p, it, msgs, outcome, title) ==
    IF IsGenerationComplete(p.results)
    THEN Complete(p, ExtractFinalResult(p.results), msgs, outcome, title)
    ELSE Pass(IF it < max_iterations THEN "loop" ELSE "exit",
              msgs \o <<[role |-> "assistant", content |-> content],
                        [role |-> "user", content |-> p.results]>>,
              NoResult, p.fs, p.calls, <<>>, NoResult)

LoopBodyOn(resp, content, it, msgs, f, outcome, title) ==
    IF resp.stop = "error" THEN Pass("raised", msgs, NoResult, f, <<>>, <<>>, NoResult)
    ELSE IF resp.stop = "tool_use"
    THEN ToolUseBranch(content, ProcessToolUse(content, f, resp.io), it, msgs, outcome, title)
    ELSE Pass("exit", msgs, StoppedResult(TextOf(content)), f, <<>>, <<>>, NoResult)

\* the body of the while loop (lines 60-115) for one response
LoopBody(resp, it, msgs, f, outcome, title) ==
    LoopBodyOn(resp, WithIds(resp.content, it), it, msgs, f, outcome, title)

GenApply(i, it, b) ==
    /\ iteration' = it
    /\ requests' = requests + 1
    /\ specials' = IF i = DefaultResponse THEN specials ELSE specials + 1
    /\ messages' = b.messages
    /\ fs' = b.fs
    /\ dispatched' = dispatched \o b.calls
    /\ exports' = exports \o b.exported
    /\ extracted' = b.extracted
    /\ gpc' = CASE b.pc = "loop" -> "loop" [] b.pc = "exit" -> "done" [] OTHER -> "raised"
    /\ final_result' = IF b.pc = "exit" THEN AfterLoop(it, b.result) ELSE NoResult
    /\ UNCHANGED <<ppt_data, chatVars, appVars, pureVars>>

\* one iteration of generate_presentation, and its return when the loop ends
GenIterate(i, outcome) ==
    /\ gpc = "loop"
    /\ i = DefaultResponse \/ specials < MaxSpecial
    /\ GenApply(i, iteration + 1,
                LoopBody(GenResponses[i], iteration + 1, messages, fs, outcome,
                         ppt_data.ppt_topic))

\* PPTAgent.generate_presentation called by a client of the class
Generate ==
    /\ gpc = "idle"
    /\ \E k \in 1..Len(PptDataInputs) : GenStart(PptDataInputs[k])
    /\ cpc = "idle"
    /\ UNCHANGED <<fs, specials, chatVars, appVars, pureVars>>

\* whether the response's results end the session with an export
Exporting(x) == x.exc = None /\ x.kind = "dict" /\ x.val.success /\ x.val.slide_files # <<>>
WillExportOn(p) == IsGenerationComplete(p.results) /\ Exporting(ExtractFinalResult(p.results))
WillExport(resp, f) ==
    resp.stop = "tool_use" /\ WillExportOn(ProcessToolUse(resp.content, f, resp.io))

GenStep ==
    \E i \in 1..Len(GenResponses) :
        /\ gpc = "loop"
        /\ i = DefaultResponse \/ specials < MaxSpecial
        /\ \E outcome \in (IF WillExport(GenResponses[i], fs) THEN ExportOutcomes ELSE {"empty"}) :
               GenIterate(i, outcome)

(* ------------------------------------------------------------ MainChat *)

chat_max_iterations == 10

Apology == <<"Sorry, I encountered an issue. Please try again.">>

\* A script of a nested generation session: the default response in every
\* iteration but `at`, where response `resp` is given; outcome is what the
\* export does if it is run.
Script(at, resp, outcome) == [at |-> at, resp |-> resp, outcome |-> outcome]
NestedScripts ==
    << Script(0, 1, "empty"),      \* never completes
       Script(2, 15, "ok"),        \* return_ppt_result, create_file; composite written
       Script(1, 14, "raise"),     \* text, create_file, return_ppt_result; export fails
       Script(1, 11, "empty"),     \* return_ppt_result with success = false
       Script(30, 9, "ok"),        \* return_ppt_result in the last iteration, no document
       Script(3, 19, "empty") >>   \* the model request fails

\* generate_presentation run to its end on a script: the loop of LoopBody
RECURSIVE RunFrom(_, _, _, _, _, _)
RunOn(script, it, b, title, calls) ==
    IF b.pc = "loop"
    THEN RunFrom(script, it + 1, b.messages, b.fs, title, calls \o b.calls)
    ELSE [pc |-> IF b.pc = "exit" THEN "done" ELSE "raised",
          iteration |-> it, messages |-> b.messages, fs |-> b.fs,
          result |-> IF b.pc = "exit" THEN AfterLoop(it, b.result) ELSE NoResult,
          calls |-> calls \o b.calls, exported |-> b.exported, extracted |-> b.extracted]
RunFrom(script, it, msgs, f, title, calls) ==
    RunOn(script, it,
          LoopBody(GenResponses[IF it = script.at THEN script.resp ELSE DefaultResponse],
                   it, msgs, f, script.outcome, title),
          title, calls)

\* a generate_presentation that appends its prompt to the transcript it finds
GeneratePresentationKeeping(d, script, f, msgs) ==
    IF \E k \in {"ppt_topic", "ppt_description", "ppt_details"} : ~Has(d, k)
    THEN [pc |-> "raised", iteration |-> 0, messages |-> msgs, fs |-> f, result |-> NoResult,
          calls |-> <<>>, exported |-> <<>>, extracted |-> NoResult]
    ELSE RunFrom(script, 1,
                 Append(msgs, [role |-> "user", content |-> <<TXT(UserPrompt(d))>>]), f,
                 d.ppt_topic, <<>>)

GeneratePresentation(d, script, f, msgs) ==
    IF \E k \in {"ppt_topic", "ppt_description", "ppt_details"} : ~Has(d, k)
    THEN [pc |-> "raised", iteration |-> 0, messages |-> msgs, fs |-> f, result |-> NoResult,
          calls |-> <<>>, exported |-> <<>>, extracted |-> NoResult]
    ELSE RunFrom(script, 1, <<[role |-> "user", content |-> <<TXT(UserPrompt(d))>>]>>, f,
                 d.ppt_topic, <<>>)

\* ', '.join(slide_files)
RECURSIVE Join(_)
Join(files) ==
    IF files = <<>> THEN <<>>
    ELSE IF Len(files) = 1 THEN <<files[1]>>
    ELSE <<files[1], ",", SP>> \o Join(Tail(files))

\* _execute_generate_ppt on what generate_presentation did: (message, success)
ExecuteGeneratePpt(g) ==
    IF g.pc = "raised"
    THEN [text |-> <<"Error", SP, "generating presentation", COLON, SP, "<exception>">>,
          ok |-> FALSE]
    ELSE IF g.result.success
    THEN [text |-> <<"Successfully generated presentation!", "\n\n", "Slide count", COLON, SP,
                     NumTok(g.result.slide_count), "\n", "Files created", COLON, SP>>
                       \o Join(g.result.slide_files) \o <<"\n\n">> \o g.result.message
                       \o (IF Has(g.result, "pptx_file")
                           THEN <<"\n\n", "PPTX File", COLON, SP>> \o g.result.pptx_file
                           ELSE <<>>)
                       \o <<"\n\n", "You can also view individual HTML slides in your browser">>,
          ok |-> TRUE]
    ELSE [text |-> <<"Failed to generate presentation", COLON, SP>> \o g.result.message,
          ok |-> FALSE]

ChatToolResult(block, text) ==
    [type |-> "tool_result", tool_use_id |-> block.id, content |-> text]

ChatCons(block, text, ok, isGen, rest) ==
    [results |-> <<ChatToolResult(block, text)>> \o rest.results,
     ppt_generated |-> IF rest.ran > 0 THEN rest.ppt_generated ELSE ok,
     gen |-> rest.gen,
     ran |-> rest.ran + (IF isGen THEN 1 ELSE 0)]

\* MainChat._process_tool_use: gen is the state of the PPTAgent and of the
\* filesystem, threaded through the blocks; ppt_generated is what the last
\* generate_ppt call yielded
RECURSIVE ChatProcessFrom(_, _, _, _)
ChatAfterGenerate(content, i, script, g, e) ==
    ChatCons(content[i], e.text, e.ok, TRUE, ChatProcessFrom(content, i + 1, script, g))
ChatGenerate(content, i, script, g) ==
    ChatAfterGenerate(content, i, script, g, ExecuteGeneratePpt(g))
ChatProcessFrom(content, i, script, gen) ==
    IF i > Len(content) THEN [results |-> <<>>, ppt_generated |-> FALSE, gen |-> gen, ran |-> 0]
    ELSE IF ~IsToolUse(content[i]) THEN ChatProcessFrom(content, i + 1, script, gen)
    ELSE IF content[i].name = "generate_ppt"
    THEN ChatGenerate(content, i, script,
                      GeneratePresentation(content[i].input, script, gen.fs, gen.messages))
    ELSE ChatCons(content[i],
                  IF content[i].name = "web_search"
                  THEN <<"Web search completed (server-side)">>
                  ELSE <<"Unknown tool", COLON, SP, content[i].name>>,
                  FALSE, FALSE, ChatProcessFrom(content, i + 1, script, gen))

\* _extract_text_response: "\n".join(text blocks)
RECURSIVE JoinLines(_)
JoinLines(texts) ==
    IF texts = <<>> THEN <<>>
    ELSE IF Len(texts) = 1 THEN texts[1]
    ELSE texts[1] \o <<"\n">> \o JoinLines(Tail(texts))

RECURSIVE TextBlocks(_)
TextBlocks(content) ==
    IF content = <<>> THEN <<>>
    ELSE (IF Head(content).type = "text" THEN <<Head(content).text>> ELSE <<>>)
             \o TextBlocks(Tail(content))

\* a text extraction that keeps the first text block only
ExtractFirstText(content) ==
    IF TextBlocks(content) = <<>> THEN <<>> ELSE TextBlocks(content)[1]

ExtractTextResponse(content) == JoinLines(TextBlocks(content))

CResp(stop, content, script) == [stop |-> stop, content |-> content, script |-> script]
PptInput == [ppt_topic |-> Topic, ppt_description |-> <<"d">>, ppt_details |-> <<"x">>]
CallGenerate == TU("generate_ppt", PptInput)
CallSearch == TU("web_search", <<>>)
\* a second presentation, on another topic
PptInput2 == [ppt_topic |-> <<"Q1">>, ppt_description |-> <<"d">>, ppt_details |-> <<"x">>]

\* The responses the chat model may give; the first is the default one.
ChatResponses ==
    << CResp("tool_use", <<CallSearch>>, 1),
       CResp("end_turn", <<TXT(<<"What", SP, "topic?">>), TXT(<<"And", SP, "colors?">>)>>, 1),
       CResp("tool_use", <<CallGenerate>>, 1),
       CResp("tool_use", <<CallGenerate>>, 2),
       CResp("tool_use", <<CallGenerate>>, 3),
       CResp("tool_use", <<CallGenerate>>, 4),
       CResp("tool_use", <<CallGenerate>>, 5),
       CResp("tool_use", <<CallGenerate>>, 6),
       CResp("tool_use", <<TXT(<<"ok">>), CallGenerate, TU("create_file", <<>>)>>, 2),
       CResp("tool_use", <<TU("generate_ppt", [ppt_description |-> <<"d">>])>>, 2),
       CResp("max_tokens", <<TXT(<<"cut">>), CallGenerate>>, 1),
       CResp("error", <<>>, 1),
       \* two presentations requested in one response
       CResp("tool_use", <<CallGenerate, TU("generate_ppt", PptInput2)>>, 2),
       \* a presentation requested, then one without its topic
       CResp("tool_use", <<CallGenerate, TU("generate_ppt", [ppt_description |-> <<"d">>])>>,
             2) >>

\* start_conversation and send_message calls in one run
MaxUserMessages == 2

\* the n-th user message, without images; its string content is written as
\* the one text block the API reads it as
UserTurn(n) == [role |-> "user", content |-> <<TXT(<<"message", NumTok(n)>>)>>]

ChatPass(pc, msgs, ret, gen, ran) ==
    [pc |-> pc, messages |-> msgs, ret |-> ret, gen |-> gen, ran |-> ran]

\* the tool_use branch under a budget that the nested session's iterations
\* are charged to as well
ChatToolUseBranchShared(content, p, it, msgs) ==
    ChatPass(IF it + p.gen.iteration < chat_max_iterations THEN "loop" ELSE "returned",
             msgs \o <<[role |-> "assistant", content |-> content],
                       [role |-> "user", content |-> p.results]>>,
             IF it + p.gen.iteration < chat_max_iterations THEN <<>> ELSE Apology,
             p.gen, p.ran)

\* lines 89-107: the tool_use branch, and the loop's end after iteration 10
ChatToolUseBranch(content, p, it, msgs) ==
    ChatPass(IF it < chat_max_iterations THEN "loop" ELSE "returned",
             msgs \o <<[role |-> "assistant", content |-> content],
                       [role |-> "user", content |-> p.results]>>,
             IF it < chat_max_iterations THEN <<>> ELSE Apology,
             p.gen, p.ran)

ChatLoopBodyOn(resp, content, it, msgs, gen) ==
    IF resp.stop = "error" THEN ChatPass("raised", msgs, <<>>, gen, 0)
    ELSE IF resp.stop = "tool_use"
    THEN ChatToolUseBranch(content,
                           ChatProcessFrom(content, 1, NestedScripts[resp.script], gen),
                           it, msgs)
    ELSE ChatPass("returned", Append(msgs, [role |-> "assistant", content |-> content]),
                  ExtractTextResponse(content), gen, 0)

\* one iteration of _conversation_loop (lines 75-123) on a response
ChatLoopBody(resp, it, msgs, gen) ==
    ChatLoopBodyOn(resp, WithIds(resp.content, it), it, msgs, gen)

\* the PPTAgent and the filesystem as the chat's tool step finds them
GenNow ==
    [pc |-> gpc, iteration |-> iteration, messages |-> messages, fs |-> fs,
     result |-> final_result, calls |-> dispatched, exported |-> exports,
     extracted |-> extracted]

StartConversation ==
    /\ cpc = "idle" /\ gpc = "idle" /\ user_messages = 0
    /\ user_messages' = 1
    /\ chat_messages' = <<UserTurn(1)>>
    /\ chat_iteration' = 0
    /\ chat_requests' = 0
    /\ cpc' = "loop"
    /\ UNCHANGED <<chat_return, chat_outcomes, fs, specials, genVars, appVars, pureVars>>

SendMessage ==
    /\ cpc \in {"returned", "raised"} /\ user_messages < MaxUserMessages
    /\ user_messages' = user_messages + 1
    /\ chat_messages' = Append(chat_messages, UserTurn(user_messages + 1))
    /\ chat_iteration' = 0
    /\ chat_requests' = 0
    /\ cpc' = "loop"
    /\ UNCHANGED <<chat_return, chat_outcomes, fs, specials, genVars, appVars, pureVars>>

ChatApply(i, it, b) ==
    /\ chat_iteration' = it
    /\ chat_requests' = chat_requests + 1
    /\ specials' = IF i = DefaultResponse THEN specials ELSE specials + 1
    /\ chat_messages' = b.messages
    /\ chat_return' = b.ret
    /\ cpc' = b.pc
    /\ chat_outcomes' = IF b.pc = "loop" THEN chat_outcomes ELSE Append(chat_outcomes, b.pc)
    /\ fs' = b.gen.fs
    /\ messages' = b.gen.messages
    /\ gpc' = b.gen.pc
    /\ iteration' = b.gen.iteration
    /\ final_result' = b.gen.result
    /\ dispatched' = b.gen.calls
    /\ exports' = b.gen.exported
    /\ extracted' = b.gen.extracted
    /\ requests' = IF b.ran > 0 THEN b.gen.iteration ELSE requests
    /\ UNCHANGED <<ppt_data, user_messages, appVars, pureVars>>

ChatIterate(i) ==
    /\ cpc = "loop"
    /\ i = DefaultResponse \/ specials < MaxSpecial
    /\ ChatApply(i, chat_iteration + 1,
                 ChatLoopBody(ChatResponses[i], chat_iteration + 1, chat_messages, GenNow))

ChatStep == \E i \in 1..Len(ChatResponses) : ChatIterate(i)

Next ==
    /\ Generate \/ GenStep \/ StartConversation \/ SendMessage \/ ChatStep
    /\ UNCHANGED dlVars

Spec == Init /\ [][Next]_vars

(* -------------------------------------------------------------- the app *)

agentVars == <<fs, specials, genVars, chatVars>>

\* str(e): the text of an exception, which may be empty
ExceptionTexts == {<<>>, <<"<exception>">>}
\* str(KeyError(session_id))
KeyErrorText == <<"'", "<session_id>", "'">>
\* the TypeError of a call with a keyword the callee does not take
TypeErrorText ==
    <<"MainChat.__init__() got an unexpected keyword argument 'progress_callback'">>

\* a handler returns jsonify(...), status
Answer(r, status, error) == [rq EXCEPT ![r].pc = "done", ![r].status = status, ![r].error = error]

\* get_or_create_session, line 45: the session identifier is looked up
EnterCheck(r, kind) ==
    /\ rq[r].pc = "idle"
    /\ IF r = 1 THEN TRUE ELSE rq[r - 1].pc # "idle"
    /\ rq' = [rq EXCEPT ![r].kind = kind,
                        ![r].pc = IF chat_sessions = 0 THEN "create" ELSE "lookup"]
    /\ UNCHANGED <<chat_sessions, session_dicts, chat_objects, transcripts, agentVars, pureVars>>

\* get_or_create_session, lines 46-54: the dictionary is built, with a
\* MainChat of its own, and stored.  The server runs with ANTHROPIC_API_KEY
\* set, so that line 48 does not raise.
EnterCreate(r) ==
    /\ rq[r].pc = "create"
    /\ chat_sessions' = r
    /\ rq' = [rq EXCEPT ![r].pc = "lookup"]
    /\ UNCHANGED <<session_dicts, chat_objects, transcripts, agentVars, pureVars>>

\* get_or_create_session, line 56: chat_sessions[session_id] is read; the
\* KeyError of an identifier deleted since line 45 is caught by the handler
\* (lines 205-208, 290-293)
EnterReturn(r) ==
    /\ rq[r].pc = "lookup"
    /\ rq' = IF chat_sessions = 0 THEN Answer(r, 500, KeyErrorText)
             ELSE [rq EXCEPT ![r].dict = chat_sessions, ![r].pc = "entered"]
    /\ UNCHANGED <<chat_sessions, session_dicts, chat_objects, transcripts, agentVars, pureVars>>

\* /api/reset, lines 323-327, for the same cookie: the entry is deleted.
\* The cookie is cleared in the browser by the answer; the requests of Reqs
\* were sent before it.
Reset ==
    /\ chat_sessions # 0
    /\ chat_sessions' = 0
    /\ UNCHANGED <<session_dicts, chat_objects, transcripts, rq, agentVars, pureVars>>

\* lines 72-75 and 91 (219-222 and 239): a request without a message is
\* answered 400; is_first_message = len(chat_session['messages']) == 0
ReadFirst(r) ==
    /\ rq[r].pc = "entered"
    /\ \E empty \in BOOLEAN :
           rq' = IF empty THEN Answer(r, 400, <<"Message is required">>)
                 ELSE [rq EXCEPT ![r].first = (session_dicts[rq[r].dict].messages = <<>>),
                                 ![r].pc = "store"]
    /\ UNCHANGED <<chat_sessions, session_dicts, chat_objects, transcripts, agentVars, pureVars>>

MessageText(r) == <<"message", NumTok(r)>>

\* chat_session['messages'].append of the user's message
AppendUser(r) ==
    /\ rq[r].pc = "store"
    /\ session_dicts' = [session_dicts EXCEPT ![rq[r].dict].messages =
                             Append(@, [role |-> "user", content |-> MessageText(r)])]
    /\ rq' = [rq EXCEPT ![r].pc = IF rq[r].kind = "chat" THEN "call" ELSE "generate"]
    /\ UNCHANGED <<chat_sessions, chat_objects, transcripts, agentVars, pureVars>>

\* start_conversation (self.messages = [first_message]) and send_message
\* (self.messages.append) on MainChat o, up to the conversation loop
CallEntryPoint(first, o, r) ==
    IF first
    THEN /\ chat_objects' = [chat_objects EXCEPT ![o] = StartList(r)]
         /\ transcripts' = [transcripts EXCEPT ![StartList(r)] = <<UserTurn(r)>>]
    ELSE /\ UNCHANGED chat_objects
         /\ transcripts' = [transcripts EXCEPT ![chat_objects[o]] = Append(@, UserTurn(r))]

\* /api/chat, lines 248-260: the entry point is called on the session's MainChat
ChatCall(r) ==
    /\ rq[r].pc = "call"
    /\ CallEntryPoint(rq[r].first, session_dicts[rq[r].dict].chat, r)
    /\ rq' = [rq EXCEPT ![r].obj = session_dicts[rq[r].dict].chat, ![r].pc = "loop",
                        ![r].it = 0]
    /\ UNCHANGED <<chat_sessions, session_dicts, agentVars, pureVars>>

\* the chat responses that call no generate_ppt
CallsGenerate(content) ==
    \E k \in 1..Len(content) : IsToolUse(content[k]) /\ content[k].name = "generate_ppt"
WebResponses == {i \in 1..Len(ChatResponses) : ~CallsGenerate(ChatResponses[i].content)}

\* One pass of _conversation_loop, main_chat.py lines 75-123, up to its
\* first append, b being the pass on the list as the request was given it:
\* the request raises (the handler of app.py lines 290-293 answers 500 with
\* str(e)); the response is appended and its text returned (lines 110-120);
\* or, the tools dispatched, the response is appended (lines 94-97) and
\* the results wait for the append of lines 99-102.
ChatLoopApply(r, l, n, b, e) ==
    /\ transcripts' = IF b.pc = "raised" THEN transcripts
                      ELSE [transcripts EXCEPT
                               ![l] = Append(@, b.messages[Len(transcripts[l]) + 1])]
    /\ rq' = IF b.pc = "raised" THEN Answer(r, 500, e)
             ELSE [rq EXCEPT
                      ![r].it = n,
                      ![r].response = b.ret,
                      ![r].appended = @ \cup {l},
                      ![r].pending = IF Len(b.messages) = Len(transcripts[l]) + 2
                                     THEN b.messages[Len(b.messages)] ELSE NoTurn,
                      ![r].next = IF b.pc = "loop" THEN "loop" ELSE "respond",
                      ![r].pc = IF Len(b.messages) = Len(transcripts[l]) + 2
                                THEN "results" ELSE "respond"]
    /\ UNCHANGED <<chat_sessions, session_dicts, chat_objects, agentVars, pureVars>>

ChatLoopStep(r) ==
    /\ rq[r].pc = "loop"
    /\ \E i \in WebResponses, e \in ExceptionTexts :
           /\ ChatResponses[i].stop = "tool_use" => rq[r].it < MaxRounds
           /\ ChatLoopApply(r, chat_objects[rq[r].obj], rq[r].it + 1,
                            ChatLoopBody(ChatResponses[i], rq[r].it + 1,
                                         transcripts[chat_objects[rq[r].obj]], GenNow),
                            e)

\* main_chat.py lines 99-107: the tool results are appended to the list
\* self.messages names now, and the loop goes on or, after its tenth pass,
\* returns
ChatLoopResults(r) ==
    /\ rq[r].pc = "results"
    /\ transcripts' = [transcripts EXCEPT ![chat_objects[rq[r].obj]] = Append(@, rq[r].pending)]
    /\ rq' = [rq EXCEPT ![r].pc = rq[r].next, ![r].pending = NoTurn,
                        ![r].appended = @ \cup {chat_objects[rq[r].obj]}]
    /\ UNCHANGED <<chat_sessions, session_dicts, chat_objects, agentVars, pureVars>>

\* /api/chat, lines 262-293: the response is stored, the composite looked
\* up and the answer returned; fault: the lookup raises, and the handler of
\* lines 290-293 answers 500 with str(e)
ChatRespond(r) ==
    /\ rq[r].pc = "respond"
    /\ session_dicts' = [session_dicts EXCEPT ![rq[r].dict].messages =
                             Append(@, [role |-> "assistant", content |-> rq[r].response])]
    /\ \E fault \in BOOLEAN, e \in ExceptionTexts :
           rq' = IF fault THEN Answer(r, 500, e) ELSE Answer(r, 200, <<>>)
    /\ UNCHANGED <<chat_sessions, chat_objects, transcripts, agentVars, pureVars>>

\* the keywords MainChat.__init__ takes (main_chat.py line 16)
MainChatKeywords == {"api_key"}
\* the keywords generate() passes (app.py lines 112-115)
StreamKeywords == {"api_key", "progress_callback"}
\* a call with a keyword the callee does not take raises TypeError
Constructs(keywords) == keywords \subseteq MainChatKeywords

Frame(event, data) == [event |-> event, data |-> data]

\* a generator whose exception ends it with no frame sent
GenerateStreamSilent(r) ==
    /\ rq[r].pc = "generate"
    /\ ~Constructs(StreamKeywords)
    /\ rq' = [rq EXCEPT ![r].pc = "closed", ![r].status = 200]
    /\ UNCHANGED <<chat_sessions, session_dicts, chat_objects, transcripts, agentVars, pureVars>>

\* a generator that stores the user's turn in the session's MainChat before
\* it builds its own
GenerateStreamStoring(r) ==
    /\ rq[r].pc = "generate"
    /\ ~Constructs(StreamKeywords)
    /\ transcripts' = [transcripts EXCEPT ![chat_objects[session_dicts[rq[r].dict].chat]] =
                           Append(@, UserTurn(r))]
    /\ rq' = [rq EXCEPT ![r].frames = Append(@, Frame("error", TypeErrorText)),
                        ![r].pc = "closed", ![r].status = 200]
    /\ UNCHANGED <<chat_sessions, session_dicts, chat_objects, agentVars, pureVars>>

\* generate(), lines 108-196, run when the response of /api/chat/stream is
\* sent.  Its first statement builds a MainChat with the keyword
\* progress_callback, which MainChat.__init__ does not take: the TypeError
\* is caught at lines 193-196 and sent as the one frame of the stream.  The
\* statements of lines 117-191 (the copy of the transcript, the worker
\* thread, its queue and the consumer loop) are never reached.
GenerateStream(r) ==
    /\ rq[r].pc = "generate"
    /\ ~Constructs(StreamKeywords)
    /\ rq' = [rq EXCEPT ![r].frames = Append(@, Frame("error", TypeErrorText)),
                        ![r].pc = "closed", ![r].status = 200]
    /\ UNCHANGED <<chat_sessions, session_dicts, chat_objects, transcripts, agentVars, pureVars>>

\* the server: the requests of one browser session, in any interleaving
NextApp ==
    /\ \/ \E r \in Reqs :
              \/ \E kind \in {"chat", "stream"} : EnterCheck(r, kind)
              \/ EnterCreate(r)
              \/ EnterReturn(r)
              \/ ReadFirst(r)
              \/ AppendUser(r)
              \/ ChatCall(r)
              \/ ChatLoopStep(r)
              \/ ChatLoopResults(r)
              \/ ChatRespond(r)
              \/ GenerateStream(r)
       \/ Reset
    /\ UNCHANGED dlVars

SpecApp == Init /\ [][NextApp]_vars

(* ------------------------------------------------- the app: composites *)

otherVars == <<fs, specials, genVars, chatVars, appVars, pureVars>>

\* the server's clock goes on
Tick ==
    /\ now < MaxClock
    /\ now' = now + 1
    /\ UNCHANGED <<exports_dir, web_sessions, downloads>>

\* /api/chat, get_or_create_session line 45: the identifier of browser
\* session s is looked up
ApiChat(s) ==
    /\ web_sessions[s].pc = "idle"
    /\ web_sessions[s].chats < MaxChats
    /\ web_sessions' = [web_sessions EXCEPT
                            ![s].pc = IF web_sessions[s].stored THEN "lookup" ELSE "create",
                            ![s].chats = @ + 1]
    /\ UNCHANGED <<now, exports_dir, downloads>>

\* get_or_create_session, lines 46-54: the dictionary of browser session s
\* is built, with the time of its creation, and stored (ANTHROPIC_API_KEY
\* is set)
CreateSession(s) ==
    /\ web_sessions[s].pc = "create"
    /\ web_sessions' = [web_sessions EXCEPT
                            ![s] = [NoSession EXCEPT !.pc = "lookup", !.stored = TRUE,
                                                     !.session_start_time = now,
                                                     !.chats = web_sessions[s].chats]]
    /\ UNCHANGED <<now, exports_dir, downloads>>

\* get_or_create_session, line 56, and /api/chat up to the call of the
\* entry point: a KeyError (the entry was deleted since line 45) is
\* answered 500
SessionReturn(s) ==
    /\ web_sessions[s].pc = "lookup"
    /\ web_sessions' = [web_sessions EXCEPT
                            ![s].pc = IF web_sessions[s].stored THEN "chat" ELSE "idle"]
    /\ UNCHANGED <<now, exports_dir, downloads>>

\* /api/reset, lines 323-327: the entry of browser session s is deleted.  A
\* chat request being served keeps the dictionary it was given, which
\* nothing reads once the entry is gone.
ResetSession(s) ==
    /\ web_sessions[s].stored
    /\ web_sessions' = [web_sessions EXCEPT
                            ![s] = [NoSession EXCEPT !.pc = web_sessions[s].pc,
                                                     !.chats = web_sessions[s].chats]]
    /\ UNCHANGED <<now, exports_dir, downloads>>

\* a generate_ppt call of the running chat ends with an export: the composite
\* is saved at the path of its topic (prs.save)
SaveComposite(s, topic) ==
    /\ web_sessions[s].pc = "chat"
    /\ exports_dir' = [exports_dir EXCEPT ![PathStr(PathParts(OutputFile(topic)))] =
                           [present |-> TRUE, mtime |-> now, by |-> s]]
    /\ UNCHANGED <<now, web_sessions, downloads>>

\* the entry point raises: the handler of lines 290-293 answers 500
ChatRaises(s) ==
    /\ web_sessions[s].pc = "chat"
    /\ web_sessions' = [web_sessions EXCEPT ![s].pc = "idle"]
    /\ UNCHANGED <<now, exports_dir, downloads>>

\* sorted(exports_dir.glob('*.pptx'), key=os.path.getmtime, reverse=True)[0]:
\* a composite no other one is newer than
Newest(dir) ==
    {p \in ExportPaths :
        /\ dir[p].present
        /\ \A q \in ExportPaths : dir[q].present => dir[q].mtime <= dir[p].mtime}

\* /api/chat, lines 268-281: the newest composite under exports/ is
\* recorded in the dictionary the handler was given when it was modified
\* after the session started
FindComposite(s) ==
    /\ web_sessions[s].pc = "chat"
    /\ IF Newest(exports_dir) = {} \/ ~web_sessions[s].stored
       THEN web_sessions' = [web_sessions EXCEPT ![s].pc = "idle"]
       ELSE \E p \in Newest(exports_dir) :
                web_sessions' =
                    [web_sessions EXCEPT
                        ![s].pc = "idle",
                        ![s].pptx_file =
                            IF exports_dir[p].mtime > web_sessions[s].session_start_time
                            THEN p ELSE @]
    /\ UNCHANGED <<now, exports_dir, downloads>>

\* /api/download, lines 296-314: the file recorded for the session is sent
Download(s) ==
    /\ web_sessions[s].stored
    /\ web_sessions[s].pptx_file # NoPath
    /\ exports_dir[web_sessions[s].pptx_file].present
    /\ downloads' = downloads \cup
                       {[session |-> s, file |-> web_sessions[s].pptx_file,
                         by |-> exports_dir[web_sessions[s].pptx_file].by]}
    /\ UNCHANGED <<now, exports_dir, web_sessions>>

\* the requests of the browser sessions, in any interleaving
NextExports ==
    /\ \/ Tick
       \/ \E s \in Sessions :
              \/ ApiChat(s)
              \/ CreateSession(s)
              \/ SessionReturn(s)
              \/ ResetSession(s)
              \/ \E topic \in ExportTopics : SaveComposite(s, topic)
              \/ ChatRaises(s)
              \/ FindComposite(s)
              \/ Download(s)
    /\ UNCHANGED otherVars

SpecExports == Init /\ [][NextExports]_vars

(* ----------------------------------------- functions applied on their own *)

\* the tokens a message of a terminal payload is made of
MessageTokens == {"done", SP, MARK, COLON, QUOTE, "\\", "]", "}"}
MaxMessageLen == 2
Messages == UNION {[1..n -> MessageTokens] : n \in 0..MaxMessageLen}
FileLists == {<<>>, <<FileA>>, <<FileM, FileA>>}

\* the well-typed inputs of return_ppt_result
ResultInputs ==
    [success : BOOLEAN, message : Messages, slide_count : 0..3, slide_files : FileLists]

\* _extract_final_result on the one tool result of a return_ppt_result call
ExtractReturned(text) ==
    ExtractFinalResult(<<ToolResult(CallReturn(<<>>), text)>>)

\* return_ppt_result is called with an input and its result text parsed back
ReturnThenExtract ==
    /\ applied.fn = "none"
    /\ \E p \in ResultInputs :
           applied' = [fn |-> "return_ppt_result", input |-> p,
                       text |-> execute_tool("return_ppt_result", p, fs, "none").text,
                       output |-> ExtractReturned(
                                      execute_tool("return_ppt_result", p, fs, "none").text)]
    /\ UNCHANGED <<fs, specials, genVars, chatVars, appVars>>

\* the lists of documents a terminal payload may name
MaxSlideFiles == 3
SlideLists == UNION {[1..n -> PathSet] : n \in 0..MaxSlideFiles}
ExportEnvs == [launch : BOOLEAN, docs : [PathSet -> DocStatus], picture : BOOLEAN, save : BOOLEAN]

\* the filesystems a function is applied on: any of the documents may be
\* there, with the content it is given in InitFs, a.html with a page
FunctionFs ==
    {[InitFs EXCEPT !.files = [p \in PathSet |->
                                   IF p \notin present THEN NoFile
                                   ELSE IF p = FileA THEN Html ELSE InitFs.files[p]]] :
        present \in SUBSET PathSet}

\* the machines a filesystem can be on: a document is missing exactly when
\* it is not on disk
EnvsOn(f) == {env \in ExportEnvs : \A p \in PathSet : env.docs[p] = "missing" <=> ~Exists(f, p)}

\* _export_to_pptx is called with a successful result on some machine
ExportSlides ==
    /\ applied.fn = "none"
    /\ \E files \in SlideLists, env \in EnvsOn(fs) :
           /\ applied' = [fn |-> "_export_to_pptx",
                          input |-> [success |-> TRUE, message |-> <<"done">>,
                                     slide_count |-> Len(files), slide_files |-> files],
                          env |-> env,
                          output |-> Export([success |-> TRUE, message |-> <<"done">>,
                                             slide_count |-> Len(files), slide_files |-> files],
                                            Topic, env)]
           /\ fs' = ExportFs(fs, [success |-> TRUE, message |-> <<"done">>,
                                  slide_count |-> Len(files), slide_files |-> files],
                             Topic, env)
    /\ UNCHANGED <<specials, genVars, chatVars, appVars>>

\* capture_slide_screenshots is called on some machine, with or without a
\* progress callback
CaptureSlides ==
    /\ applied.fn = "none"
    /\ \E files \in SlideLists, env \in EnvsOn(fs), progress_callback \in BOOLEAN :
           /\ applied' = [fn |-> "capture_slide_screenshots",
                          input |-> [slide_files |-> files,
                                     progress_callback |-> progress_callback],
                          env |-> env,
                          output |-> CaptureSlideScreenshots(files, env, progress_callback)]
           /\ fs' = CaptureFs(fs, files, env)
    /\ UNCHANGED <<specials, genVars, chatVars, appVars>>

\* the presentation titles: words, spaces, separators and dots
TitleTokens == {"Q4", SP, "/", ".", ".."}
MaxTitleLen == 3
Titles == UNION {[1..n -> TitleTokens] : n \in 0..MaxTitleLen}

\* the machines on which the one document of the result is captured and the
\* composite is saved
TitledEnvs(f) == {env \in EnvsOn(f) : env.launch /\ env.save /\ env.docs[FileA] = "ok"}

\* _export_to_pptx is called with a one-document result under some title
ExportTitled ==
    /\ applied.fn = "none"
    /\ \E title \in Titles, env \in TitledEnvs(fs) :
           /\ applied' = [fn |-> "_export_to_pptx(title)",
                          input |-> title,
                          env |-> env,
                          output |-> Export([success |-> TRUE, message |-> <<"done">>,
                                             slide_count |-> 1, slide_files |-> <<FileA>>],
                                            title, env)]
           /\ fs' = ExportFs(fs, [success |-> TRUE, message |-> <<"done">>,
                                  slide_count |-> 1, slide_files |-> <<FileA>>],
                             title, env)
    /\ UNCHANGED <<specials, genVars, chatVars, appVars>>

\* the contents a tool call may carry: text, line ends and a character that
\* cannot be encoded
ContentTokens == {"<p>", "\n", CR, SURROGATE}
MaxContentLen == 3
Contents == UNION {[1..n -> ContentTokens] : n \in 0..MaxContentLen}

\* update_file is called on a path, then read_file on the same path
UpdateThenRead ==
    /\ applied.fn = "none"
    /\ \E content \in Contents, io \in IoFaults :
           /\ applied' = [fn |-> "update_file",
                          input |-> [file_path |-> FileA, content |-> content],
                          env |-> [fs |-> fs, io |-> io],
                          output |->
                              [update |-> update_file([file_path |-> FileA, content |-> content],
                                                      fs, io),
                               read |-> read_file([file_path |-> FileA],
                                                  update_file([file_path |-> FileA,
                                                               content |-> content],
                                                              fs, io).fs,
                                                  "none")]]
           /\ fs' = update_file([file_path |-> FileA, content |-> content], fs, io).fs
    /\ UNCHANGED <<specials, genVars, chatVars, appVars>>

NextFunctions ==
    /\ ReturnThenExtract \/ ExportSlides \/ CaptureSlides \/ ExportTitled \/ UpdateThenRead
    /\ UNCHANGED dlVars

\* a function is applied on any of the filesystems
InitFunctions == fs \in FunctionFs /\ InitRest

SpecFunctions == InitFunctions /\ [][NextFunctions]_vars

(* ------------------------------------------- the agent loops: properties *)

\* every pass of the session so far appended its two turns: every response
\* requested tool use and no tool result carried the marker
EveryPassAppended == requests > 0 /\ Len(messages) = 1 + 2 * requests

\* C1: when every model response requests tool use and no tool result
\* carries the completion marker, the generation loop issues exactly 30
\* model requests, never a 31st, and returns the failure result
\* "Max iterations reached without completion" without raising.
C1_IterationBudget ==
    /\ requests <= max_iterations
    /\ (gpc \in {"done", "raised"} /\ EveryPassAppended)
          => /\ gpc = "done"
             /\ requests = max_iterations
             /\ final_result = MaxIterationsResult

\* a session of 30 tool-use passes has returned
C1_Witness ==
    /\ gpc = "done" /\ EveryPassAppended
    /\ requests = max_iterations /\ final_result = MaxIterationsResult

\* the four payload fields of a result
PayloadOf(r) ==
    [success |-> r.success, message |-> r.message, slide_count |-> r.slide_count,
     slide_files |-> r.slide_files]

\* C2: for every iteration k in 1..30, k = 30 included, when the first
\* marker-bearing tool result is produced in iteration k and its marker is
\* well formed, generate_presentation returns the payload parsed from that
\* result; the budget-exhaustion failure result is returned only when no
\* tool result carried the marker.
C2_PayloadReturned ==
    gpc = "done"
      => /\ extracted # NoResult => PayloadOf(final_result) = PayloadOf(extracted)
         /\ final_result = MaxIterationsResult => extracted = NoResult

\* the turns that hold tool results
IsToolResultTurn(m) ==
    m.role = "user" /\ \E i \in 1..Len(m.content) : m.content[i].type = "tool_result"

ToolUseIds(content) ==
    [i \in 1..Len(SelectSeq(content, IsToolUse)) |-> SelectSeq(content, IsToolUse)[i].id]
ToolResultIds(content) == [i \in 1..Len(content) |-> content[i].tool_use_id]

\* a tool-result turn at position j answers the assistant turn before it,
\* block by block
Answers(msgs, j) ==
    /\ j > 1
    /\ msgs[j - 1].role = "assistant"
    /\ \A i \in 1..Len(msgs[j].content) : msgs[j].content[i].type = "tool_result"
    /\ ToolResultIds(msgs[j].content) = ToolUseIds(msgs[j - 1].content)
    /\ \A i, k \in 1..Len(msgs[j].content) :
           msgs[j].content[i].tool_use_id = msgs[j].content[k].tool_use_id => i = k

WellFormed(msgs) == \A j \in 1..Len(msgs) : IsToolResultTurn(msgs[j]) => Answers(msgs, j)

\* C3: in the generation loop and in the chat loop alike, every tool-result
\* turn of the transcript immediately follows the assistant turn of the same
\* response and holds exactly one tool_result entry per tool_use block of
\* that response, in block order, each with the identifier of its block.
C3_ResultsAnswerCalls == WellFormed(messages) /\ WellFormed(chat_messages)

\* both transcripts hold a tool-result turn, the chat's one with two entries
C3_Witness ==
    /\ \E j \in 1..Len(messages) : IsToolResultTurn(messages[j])
    /\ \E j \in 1..Len(chat_messages) :
           IsToolResultTurn(chat_messages[j]) /\ Len(chat_messages[j].content) = 2

\* the execute_tool calls of the latest pass through the generation loop
LatestCalls == {k \in 1..Len(dispatched) : dispatched[k].id \div 10 = iteration}

\* the latest response called tools outside the registry and no other
OnlyUnregistered ==
    /\ LatestCalls # {}
    /\ \A k \in LatestCalls : dispatched[k].name \notin RegisteredTools

\* the transcript's last turn holds a tool_result for call c, flagged
FlaggedInLastTurn(c) ==
    /\ messages # <<>>
    /\ IsToolResultTurn(messages[Len(messages)])
    /\ \E i \in 1..Len(messages[Len(messages)].content) :
           /\ messages[Len(messages)].content[i].tool_use_id = c.id
           /\ messages[Len(messages)].content[i].is_error

\* C9: for every tool name outside the registry, execute_tool returns a
\* text without raising and without changing the filesystem, the agent
\* records it as a tool_result with is_error = true, and the generation
\* loop continues with the next model request.
C9_UnknownToolContinues ==
    (gpc # "idle" /\ OnlyUnregistered)
      => /\ gpc # "raised"
         /\ gpc = "loop" \/ iteration = max_iterations
         /\ \A k \in LatestCalls : ~dispatched[k].changed /\ FlaggedInLastTurn(dispatched[k])

FsTools == RegisteredTools \ {"return_ppt_result"}

\* C10: every failure of a filesystem tool (I/O error, missing file or
\* directory, missing input key) comes back as a text result, and that
\* result is recorded with is_error = true.
C10_FailuresFlagged ==
    \A j \in 1..Len(messages) : \A i \in 1..Len(messages[j].content) :
        \A k \in 1..Len(dispatched) :
            (/\ messages[j].content[i].type = "tool_result"
             /\ messages[j].content[i].tool_use_id = dispatched[k].id
             /\ dispatched[k].name \in FsTools
             /\ dispatched[k].failed)
              => messages[j].content[i].is_error

\* C12: when a tool result holds the completion marker but the text after
\* it does not parse into the expected structure (invalid serialization, a
\* payload that is no object, the marker without its colon),
\* generate_presentation returns a result with success = false and does not
\* raise.
C12_UnparsableReported ==
    Has(extracted, "unparsed") => gpc = "done" /\ ~final_result.success

\* C13: a failure of the model request inside generate_presentation,
\* start_conversation or send_message does not reach the caller of the
\* entry point: the entry point returns a value and does not raise.
C13_RequestFailureReported ==
    /\ cpc # "raised"
    /\ (requests > 0 /\ ~Has(extracted, "unparsed")) => gpc # "raised"

\* C14: generation success and export success are independent: when the
\* export raises during rasterization or assembly, the result returned by
\* generate_presentation keeps the four fields of the parsed payload and has
\* no pptx_file entry, and a parsed payload with success = true is returned
\* with success = true whether or not a composite was produced.
C14_ExportIndependent ==
    (gpc = "done" /\ Has(extracted, "success"))
      => /\ extracted.success => final_result.success
         /\ exports # <<>>
              => /\ PayloadOf(final_result) = PayloadOf(extracted)
                 /\ exports[1] = "raise" => ~Has(final_result, "pptx_file")

\* the responses that do not request tool use
NoToolUse == {i \in 1..Len(GenResponses) : GenResponses[i].stop \notin {"tool_use", "error"}}

\* iteration k of a session is answered by response i, which does not
\* request tool use: the session returns the failure result that carries the
\* response's text, and no tool is dispatched
StoppedBy(i) ==
    GenIterate(i, "empty")
      => /\ gpc' = "done"
         /\ requests' = requests + 1
         /\ dispatched' = dispatched
         /\ final_result' = StoppedResult(TextOf(GenResponses[i].content))

\* C17: for every iteration k in 1..30, when the response of iteration k
\* does not request tool use, generate_presentation issues no further
\* request, dispatches no tool and returns success = false with the message
\* "Agent stopped unexpectedly: <text of the response>", slide_count 0 and
\* no slide files, without raising.
C17_FreeTextStops == [][\A i \in NoToolUse : StoppedBy(i)]_vars

\* the chat responses that do not request tool use
ChatNoToolUse ==
    {i \in 1..Len(ChatResponses) : ChatResponses[i].stop \notin {"tool_use", "error"}}

NotNewline(k) == k # "\n"

\* the chat loop is answered by response i, which does not request tool
\* use: the loop returns the response's text, appends the response as one
\* assistant turn and leaves the generation agent and the filesystem alone
AnsweredBy(i) ==
    ChatIterate(i)
      => /\ cpc' = "returned"
         /\ chat_requests' = chat_requests + 1
         /\ SelectSeq(chat_return', NotNewline) = TextOf(ChatResponses[i].content)
         /\ chat_messages' = Append(chat_messages,
                                    [role |-> "assistant",
                                     content |-> WithIds(ChatResponses[i].content,
                                                         chat_iteration + 1)])
         /\ UNCHANGED <<fs, genVars>>

\* C18: in the chat loop a response that does not request tool use ends the
\* loop at once: the string returned is the response's text, its text
\* blocks in order; exactly one assistant turn, holding the response, is
\* appended; no tool is dispatched and no further request is issued.
C18_TextResponseEndsChat == [][\A i \in ChatNoToolUse : AnsweredBy(i)]_vars

\* the chat returned the two text blocks of a response, in order
C18_Witness ==
    /\ cpc = "returned" /\ chat_requests = 1
    /\ chat_return = <<"What", SP, "topic?", "\n", "And", SP, "colors?">>
    /\ chat_messages[Len(chat_messages)].role = "assistant"
    /\ Len(chat_messages[Len(chat_messages)].content) = 2

\* the turns appended since the user turn of the running invocation
TurnsSinceUser ==
    Len(chat_messages)
        - Min({j \in 1..Len(chat_messages) : chat_messages[j] = UserTurn(user_messages)})

\* every response of the invocation requested tool use
AllRequestedTools == chat_requests > 0 /\ TurnsSinceUser = 2 * chat_requests

\* C19: one invocation of the chat loop issues at most 10 model requests
\* and, when all 10 responses request tool use, returns the apology text
\* without raising; the budgets are independent: the iterations of a nested
\* generation session do not count against the chat's 10, and a generation
\* session has its own 30 whatever the chat iteration it starts in.
C19_IndependentBudgets ==
    /\ chat_requests <= chat_max_iterations
    /\ chat_iteration = chat_requests
    /\ requests <= max_iterations
    /\ (gpc = "done" /\ final_result = MaxIterationsResult) => iteration = max_iterations
    /\ (cpc \in {"returned", "raised"} /\ AllRequestedTools)
          => /\ cpc = "returned"
             /\ chat_requests = chat_max_iterations
             /\ chat_return = Apology

\* ten tool-use responses, a nested session of 30 iterations among them: the
\* apology is returned
C19_Witness ==
    /\ cpc = "returned" /\ AllRequestedTools
    /\ chat_requests = chat_max_iterations /\ chat_return = Apology
    /\ gpc = "done" /\ iteration = max_iterations

\* C20: the generation session is ended as complete only by the result of
\* a return_ppt_result call: the result of any other tool (read_file of a
\* file whose text holds the marker, an error text that mentions it) is
\* never taken for the terminal result and never ends the session.
C20_OnlyReturnCompletes ==
    extracted # NoResult
      => \E k \in LatestCalls :
             dispatched[k].name = "return_ppt_result" /\ ~dispatched[k].failed

\* the responses that request tool use
RequestsTools == {i \in 1..Len(GenResponses) : GenResponses[i].stop = "tool_use"}

\* iteration k of a session is answered by response i, which requests tools,
\* and nothing is raised: the transcript grows by the assistant turn that
\* holds the response and by the turn of its tool results, in this order
TurnsAppendedBy(i, outcome) ==
    (GenIterate(i, outcome) /\ gpc' # "raised")
      => /\ Len(messages') = Len(messages) + 2
         /\ SubSeq(messages', 1, Len(messages)) = messages
         /\ messages'[Len(messages) + 1]
                = [role |-> "assistant",
                   content |-> WithIds(GenResponses[i].content, iteration + 1)]
         /\ IsToolResultTurn(messages'[Len(messages) + 2])
         /\ Answers(messages', Len(messages) + 2)

\* C21: in every iteration of the generation loop whose response requests
\* tools, the iteration that produces the completion marker included, the
\* assistant turn and then the aggregated tool-result turn are appended to
\* the transcript before the loop stops or continues.
C21_TurnsAppended ==
    [][\A i \in RequestsTools : \A outcome \in ExportOutcomes : TurnsAppendedBy(i, outcome)]_vars

\* the tool calls of response i, in block order
CallsOf(i) == SelectSeq(GenResponses[i].content, IsToolUse)

\* the well-formed return_ppt_result calls among them
ReturnsOf(i) ==
    {k \in 1..Len(CallsOf(i)) :
        /\ CallsOf(i)[k].name = "return_ppt_result"
        /\ \A j \in 1..Len(ResultKeys) : Has(CallsOf(i)[k].input, ResultKeys[j])}

\* the responses that hold a well-formed return_ppt_result call and other
\* tool calls as well
ReturnAmongOthers == {i \in RequestsTools : Len(CallsOf(i)) > 1 /\ ReturnsOf(i) # {}}

\* the calls dispatched by the step are the tool calls of response i, each
\* once, in block order
DispatchedInOrder(i) ==
    /\ Len(dispatched') = Len(dispatched) + Len(CallsOf(i))
    /\ \A k \in 1..Len(CallsOf(i)) :
           /\ dispatched'[Len(dispatched) + k].name = CallsOf(i)[k].name
           /\ dispatched'[Len(dispatched) + k].id \div 10 = iteration + 1
    /\ \A k, l \in 1..Len(CallsOf(i)) :
           k < l => dispatched'[Len(dispatched) + k].id < dispatched'[Len(dispatched) + l].id

\* iteration k of a session is answered by response i: every call is
\* dispatched, the files its create_file calls write are on disk, and the
\* session returns the payload of the first return_ppt_result call
FirstReturnWins(i, outcome) ==
    GenIterate(i, outcome)
      => /\ DispatchedInOrder(i)
         /\ \A k \in 1..Len(CallsOf(i)) :
                CallsOf(i)[k].name = "create_file"
                  => fs'.files[CallsOf(i)[k].input.file_path] = CallsOf(i)[k].input.content
         /\ gpc' = "done"
         /\ PayloadOf(final_result') = CallsOf(i)[Min(ReturnsOf(i))].input

\* C22: when the response that produces the completion marker contains
\* other tool calls as well, every tool call of that response is dispatched
\* exactly once in block order (those placed after return_ppt_result
\* included), and the terminal outcome is the payload of the first
\* marker-bearing result in block order, whatever the other calls return.
C22_FirstReturnWins ==
    [][\A i \in ReturnAmongOthers : \A outcome \in ExportOutcomes : FirstReturnWins(i, outcome)]_vars

HoldsToolUse(m) ==
    m.role = "assistant" /\ \E i \in 1..Len(m.content) : IsToolUse(m.content[i])

\* every assistant turn that holds tool calls is followed at once by the
\* turn of its tool results
Committed(msgs) ==
    \A j \in 1..Len(msgs) :
        HoldsToolUse(msgs[j])
          => /\ j < Len(msgs)
             /\ IsToolResultTurn(msgs[j + 1])
             /\ Answers(msgs, j + 1)

\* C23: at every exit of either loop (completion, free-text response,
\* budget exhaustion), the transcript holds no assistant turn containing tool
\* calls that is not immediately followed by its tool-result turn: the
\* assistant turn and its tool-result turn are appended together or not at
\* all.
C23_NoDanglingToolUse ==
    /\ gpc = "done" => Committed(messages)
    /\ cpc = "returned" => Committed(chat_messages)

\* user-role and assistant-role turns follow each other in turn, from a user
\* turn to an assistant turn
Alternates(msgs) ==
    /\ msgs # <<>>
    /\ msgs[1].role = "user"
    /\ msgs[Len(msgs)].role = "assistant"
    /\ \A j \in 1..(Len(msgs) - 1) : msgs[j].role # msgs[j + 1].role

\* C24: after any sequence of start_conversation and send_message calls
\* that return normally, calls that ended by budget exhaustion included,
\* MainChat.messages strictly alternates user-role and assistant-role turns,
\* starting with a user turn and ending with an assistant turn.
C24_TurnsAlternate ==
    (cpc = "returned" /\ \A n \in 1..Len(chat_outcomes) : chat_outcomes[n] = "returned")
      => Alternates(chat_messages)

\* one request per iteration in both loops
OneRequestPerIteration ==
    /\ gpc # "idle" => requests = iteration
    /\ cpc # "idle" => chat_requests = chat_iteration

\* the calls from position n on were dispatched in the order of the
\* iterations and of the blocks, none twice
InOrderFrom(calls, n) ==
    \A k \in n..Len(calls) : k > 1 => calls[k - 1].id < calls[k].id

\* every tool call of an assistant turn was dispatched once, under its name,
\* among the calls from position n on
TurnDispatched(turn, calls, n) ==
    \A b \in 1..Len(turn.content) :
        IsToolUse(turn.content[b])
          => Cardinality({k \in n..Len(calls) :
                             /\ calls[k].id = turn.content[b].id
                             /\ calls[k].name = turn.content[b].name}) = 1

\* a pass of the generation loop issues one request and dispatches the
\* calls of its response, each once; the calls dispatched earlier stay
GenPassOnce ==
    (cpc = "idle" /\ gpc = "loop" /\ <<requests, dispatched, gpc>>' # <<requests, dispatched, gpc>>)
      => /\ requests' = requests + 1
         /\ iteration' = iteration + 1
         /\ Len(dispatched') >= Len(dispatched)
         /\ SubSeq(dispatched', 1, Len(dispatched)) = dispatched
         /\ InOrderFrom(dispatched', Len(dispatched) + 1)
         /\ \A k \in (Len(dispatched) + 1)..Len(dispatched') :
                dispatched'[k].id \div 10 = iteration'
         /\ Len(messages') > Len(messages)
              => TurnDispatched(messages'[Len(messages) + 1], dispatched', Len(dispatched) + 1)

\* a pass of the chat loop issues one request and yields one result per tool
\* call of its response; a session it runs has one request per iteration
\* and no call dispatched twice
ChatPassOnce ==
    (cpc = "loop" /\ <<chat_requests, chat_messages, cpc>>' # <<chat_requests, chat_messages, cpc>>)
      => /\ chat_requests' = chat_requests + 1
         /\ chat_iteration' = chat_iteration + 1
         /\ Len(chat_messages') >= Len(chat_messages)
         /\ SubSeq(chat_messages', 1, Len(chat_messages)) = chat_messages
         /\ Len(chat_messages') = Len(chat_messages) + 2
              => Answers(chat_messages', Len(chat_messages'))
         /\ <<requests, dispatched>>' # <<requests, dispatched>>
              => requests' = iteration' /\ InOrderFrom(dispatched', 1)

\* a loop that raised issues no request and dispatches no tool until its
\* entry point is called again
RaisedStays ==
    /\ (gpc = "raised" /\ chat_requests' = chat_requests)
          => requests' = requests /\ dispatched' = dispatched
    /\ (cpc = "raised" /\ user_messages' = user_messages)
          => chat_requests' = chat_requests /\ chat_messages' = chat_messages

\* C25: neither loop retries: each iteration issues exactly one model
\* request, each tool call of a response is dispatched to its handler exactly
\* once, a tool call whose result is an error is never re-dispatched by the
\* loop itself, and a failed model request is never re-issued.
C25_NoRetries ==
    []OneRequestPerIteration /\ [][GenPassOnce /\ ChatPassOnce /\ RaisedStays]_vars

\* a session went on after an iteration in which five tool calls failed,
\* each of them dispatched once
C25_Witness ==
    /\ gpc = "done" /\ iteration = max_iterations /\ requests = max_iterations
    /\ Cardinality({k \in 1..Len(dispatched) : dispatched[k].failed}) = 5
    /\ \E k \in 1..Len(dispatched) : dispatched[k].failed /\ dispatched[k].id \div 10 < iteration

\* the chat responses that call generate_ppt
GenerateResponses ==
    {i \in 1..Len(ChatResponses) :
        ChatResponses[i].stop = "tool_use" /\ CallsGenerate(ChatResponses[i].content)}
IsGenerateCall(b) == IsToolUse(b) /\ b.name = "generate_ppt"

\* the assistant turns of a chat transcript whose generate_ppt calls were
\* run: those answered by a tool-result turn
RanGenerate(msgs) ==
    {j \in 1..(Len(msgs) - 1) :
        /\ msgs[j].role = "assistant"
        /\ CallsGenerate(msgs[j].content)
        /\ IsToolResultTurn(msgs[j + 1])}

\* the input of the last generate_ppt call of turn j
LastCallOf(msgs, j) ==
    SelectSeq(msgs[j].content, IsGenerateCall)[Len(SelectSeq(msgs[j].content, IsGenerateCall))]
\* the input of the generate_ppt call that was run last
LastInput(msgs) ==
    LastCallOf(msgs, CHOOSE j \in RanGenerate(msgs) : \A k \in RanGenerate(msgs) : k <= j).input

\* the transcript of a session started with input d after n iterations: the
\* prompt built from d, then for each iteration that appended its turns the
\* assistant turn of that iteration and its tool-result turn
SessionTranscript(msgs, d, n) ==
    /\ msgs # <<>>
    /\ msgs[1] = [role |-> "user", content |-> <<TXT(UserPrompt(d))>>]
    /\ Len(msgs) \in {2 * n - 1, 2 * n + 1}
    /\ \A j \in 2..Len(msgs) :
           IF j % 2 = 0
           THEN /\ HoldsToolUse(msgs[j])
                /\ \A b \in 1..Len(msgs[j].content) :
                       IsToolUse(msgs[j].content[b]) => msgs[j].content[b].id \div 10 = j \div 2
           ELSE IsToolResultTurn(msgs[j]) /\ Answers(msgs, j)

\* a turn of the chat transcript is a user message, a response of the chat
\* model, or the results of the response before it, one three-key entry per
\* call
ChatTurn(msgs, j) ==
    \/ \E n \in 1..user_messages : msgs[j] = UserTurn(n)
    \/ msgs[j].role = "assistant"
    \/ /\ IsToolResultTurn(msgs[j])
       /\ Answers(msgs, j)
       /\ \A b \in 1..Len(msgs[j].content) :
              DOMAIN msgs[j].content[b] = {"type", "tool_use_id", "content"}

\* a pass of the chat loop in which generate_ppt was called and answered
RanGenerateNow ==
    /\ Len(chat_messages') = Len(chat_messages) + 2
    /\ Len(chat_messages) + 1 \in RanGenerate(chat_messages')

\* the keys _build_user_prompt reads without a default
HasRequired(d) == \A k \in {"ppt_topic", "ppt_description", "ppt_details"} : Has(d, k)
IsStartedCall(b) == IsGenerateCall(b) /\ HasRequired(b.input)

\* a pass of the chat loop appends nothing but the response and the results
\* of its calls, and the generation agent is touched only by a generate_ppt
\* call
ChatKeptApart ==
    /\ Len(chat_messages') - Len(chat_messages) \in 0..2
    /\ SubSeq(chat_messages', 1, Len(chat_messages)) = chat_messages
    /\ \A j \in (Len(chat_messages) + 1)..Len(chat_messages') : ChatTurn(chat_messages', j)
    /\ <<messages, iteration, requests, gpc>>' # <<messages, iteration, requests, gpc>>
         => RanGenerateNow
    /\ \A j \in 1..Len(messages'), k \in 1..Len(chat_messages') :
           messages'[j] # chat_messages'[k]

\* the agent's transcript after the calls of a response, the last of which
\* lacks a required key: that call raised before the transcript was
\* assigned, so that the transcript is the one the last call holding the
\* keys left, or the one found when the response held no such call
LeftByEarlier(started) ==
    /\ gpc' = "raised"
    /\ IF started = <<>> THEN messages' = messages
       ELSE \E n \in 1..max_iterations :
                SessionTranscript(messages', started[Len(started)].input, n)

\* after a call whose input holds the required keys the agent's transcript
\* is that session's own; a call whose input lacks one starts no session
NestedApart ==
    cpc = "loop"
      => /\ ChatKeptApart
         /\ RanGenerateNow
              => IF HasRequired(LastInput(chat_messages'))
                 THEN SessionTranscript(messages', LastInput(chat_messages'), iteration')
                 ELSE LeftByEarlier(SelectSeq(chat_messages'[Len(chat_messages) + 1].content,
                                              IsStartedCall))

\* C26 (as amended): each generate_ppt call whose input holds ppt_topic,
\* ppt_description and ppt_details starts a generation session whose
\* transcript is reset to exactly one user turn built from that call's input,
\* holding no turn of the chat transcript or of an earlier generation
\* session; a call whose input lacks one of them starts no session and
\* leaves the agent's transcript as it found it; in both cases the chat
\* transcript changes only through the single tool-result entry for the call.
C26_NestedSessionApart == [][NestedApart]_vars

\* two sessions were started by one response: the agent's transcript is the
\* second session's, the chat's transcript holds one result for each
C26_Witness ==
    /\ cpc = "loop" /\ gpc = "done" /\ iteration = 2
    /\ messages[1] = [role |-> "user", content |-> <<TXT(UserPrompt(PptInput2))>>]
    /\ Len(messages) = 3
    /\ Len(chat_messages[Len(chat_messages)].content) = 2

\* every call, whatever its input holds, leaves the agent with the
\* transcript of a session started from that input
EveryCallResets ==
    (cpc = "loop" /\ RanGenerateNow)
      => /\ HasRequired(LastInput(chat_messages'))
         /\ SessionTranscript(messages', LastInput(chat_messages'), iteration')

\* C26 (as stated): each generate_ppt call starts a generation session
\* whose transcript is reset to exactly one user turn built from that call's
\* input, holding no turn of the chat transcript or of an earlier generation
\* session; the nested session changes the chat transcript only through the
\* single tool-result entry for that call.
C26_EveryCallResets == [][(cpc = "loop" => ChatKeptApart) /\ EveryCallResets]_vars

\* a response called generate_ppt twice, the second time without a topic:
\* the agent still holds the transcript of the first call's session
EarlierSessionKept ==
    /\ cpc = "loop" /\ gpc = "raised" /\ Len(messages) = 3
    /\ messages[1] = [role |-> "user", content |-> <<TXT(UserPrompt(PptInput))>>]
    /\ Len(chat_messages[Len(chat_messages)].content) = 2

\* the identifier of the last generate_ppt call of response i in iteration it
LastGenerateId(i, it) ==
    LET ids == {WithIds(ChatResponses[i].content, it)[p].id :
                   p \in {q \in 1..Len(ChatResponses[i].content) :
                             IsGenerateCall(ChatResponses[i].content[q])}}
    IN  CHOOSE x \in ids : \A y \in ids : y <= x

\* the nested session of the last call raised or returned success = false
GenerationFailed(pc, result) == IF pc = "raised" THEN TRUE ELSE ~result.success

\* the entries of a tool-result turn that answer call c are flagged as errors
FlaggedFor(turn, c) ==
    /\ \E b \in 1..Len(turn.content) : turn.content[b].tool_use_id = c
    /\ \A b \in 1..Len(turn.content) :
           turn.content[b].tool_use_id = c
             => Has(turn.content[b], "is_error") /\ turn.content[b].is_error

\* the chat loop is answered by response i, whose last generate_ppt call
\* fails: the chat does not raise, the call's result is flagged and the loop
\* goes on, unless this was its tenth iteration
FailureSurfaces(i) ==
    (ChatIterate(i) /\ GenerationFailed(gpc', final_result'))
      => /\ cpc' # "raised"
         /\ cpc' = "loop" \/ chat_iteration' = chat_max_iterations
         /\ FlaggedFor(chat_messages'[Len(chat_messages')],
                       LastGenerateId(i, chat_iteration + 1))

\* C27: a failed generate_ppt call (the nested session returns
\* success = false, or raises for any reason) surfaces in the chat transcript
\* as an error-flagged tool result for that call id and never as an exception
\* out of the chat loop; the chat loop then continues with its next model
\* request.
C27_FailureSurfaces == [][\A i \in GenerateResponses : FailureSurfaces(i)]_vars

\* C30: the export pipeline is invoked at most once per generation session,
\* and only after a terminal result with success = true and a non-empty
\* slide_files list has been parsed; it is never invoked on budget
\* exhaustion, on a free-text response, or for a payload with success = false
\* or no slide files.
C30_ExportOnlyOnSuccess ==
    /\ Len(exports) <= 1
    /\ exports # <<>>
         => /\ Has(extracted, "success")
            /\ extracted.success
            /\ extracted.slide_files # <<>>
            /\ gpc = "done" /\ requests = iteration
    /\ (gpc = "done" /\ ~Has(extracted, "success")) => exports = <<>>

\* a session parsed a successful payload with one slide file and its export
\* wrote the composite
C30_Witness ==
    /\ gpc = "done" /\ exports = <<"ok">>
    /\ extracted = PayloadOk
    /\ Has(final_result, "pptx_file")

(* ---------------------------------------------------- the app: properties *)

IsTerminal(f) == f.event \in {"complete", "error"}
TerminalFrames(r) == SelectSeq(rq[r].frames, IsTerminal)
Streamed(r) == rq[r].kind = "stream"

\* C5: in every execution of the streamed generator, the frames hold exactly
\* one terminal event ('complete' or 'error'), it is the last frame, and the
\* stream never ends without one.
C5_OneTerminalEvent ==
    \A r \in Reqs :
        Streamed(r)
          => /\ Len(TerminalFrames(r)) <= 1
             /\ Len(TerminalFrames(r)) = 1 => IsTerminal(rq[r].frames[Len(rq[r].frames)])
             /\ rq[r].pc = "closed" <=> Len(TerminalFrames(r)) = 1

\* two streams of one session have ended, each with its one error frame
C5_Witness ==
    \A r \in Reqs :
        /\ Streamed(r) /\ rq[r].pc = "closed"
        /\ rq[r].frames = <<Frame("error", TypeErrorText)>>

\* the transcript of the MainChat stored in session dictionary d
StoredTranscript(d) == transcripts[chat_objects[session_dicts[d].chat]]

\* a step of the streamed request r
StreamStep(r) == rq'[r] # rq[r] /\ rq'[r].kind = "stream"

\* the generator of the streamed request r ends on an exception
StreamFails(r) == Streamed(r) /\ rq[r].pc = "generate" /\ rq'[r].pc = "closed"

\* the terminal event is 'error' with the exception text
FailureReported(r) ==
    /\ rq'[r].frames = Append(rq[r].frames, Frame("error", TypeErrorText))
    /\ \A k \in 1..Len(rq[r].frames) : ~IsTerminal(rq[r].frames[k])

\* the message logs receive nothing but the user's message, and the MainChat
\* objects stored in the sessions and their transcripts are left alone
SessionLeft(r) ==
    /\ \A d \in Reqs :
           /\ session_dicts'[d].chat = session_dicts[d].chat
           /\ \/ session_dicts'[d].messages = session_dicts[d].messages
              \/ session_dicts'[d].messages
                     = Append(session_dicts[d].messages,
                              [role |-> "user", content |-> MessageText(r)])
    /\ chat_objects' = chat_objects
    /\ transcripts' = transcripts

Executing(r) == rq[r].pc \in {"loop", "results"}

\* C7: at no time have two agent loops that are running at once appended
\* to the same transcript list, for any overlap of /api/chat and
\* /api/chat/stream requests of one session.
C7_NoSharedTranscript ==
    \A r1, r2 \in Reqs :
        (r1 # r2 /\ Executing(r1) /\ Executing(r2))
          => rq[r1].appended \cap rq[r2].appended = {}

\* the turn of another request between the response of a pass and its
\* tool results
TurnsInterleaved ==
    \E r1, r2 \in Reqs, l \in ListIds :
        /\ r1 # r2 /\ Len(transcripts[l]) >= 3
        /\ \E j \in 1..(Len(transcripts[l]) - 2) :
               /\ HoldsToolUse(transcripts[l][j])
               /\ transcripts[l][j + 1] = UserTurn(r2)
               /\ IsToolResultTurn(transcripts[l][j + 2])

(* ------------------------------------------------ functions: properties *)

\* C11: for every well-typed input of return_ppt_result, messages that hold
\* the marker text included, _extract_final_result applied to the tool
\* result returns a payload whose four fields equal the input's.
C11_PayloadRoundTrip ==
    applied.fn = "return_ppt_result"
      => /\ applied.output.exc = None
         /\ applied.output.kind = "dict"
         /\ PayloadOf(applied.output.val) = applied.input

\* an export was applied on a machine whose browser starts
ExportApplied(a) == a.fn = "_export_to_pptx" /\ a.env.launch

\* the positions of the documents of the input that the machine captures
CapturedDocs(a) ==
    {i \in 1..Len(a.input.slide_files) : a.env.docs[a.input.slide_files[i]] = "ok"}

\* the pages hold the screenshots of exactly the documents in D, in the
\* order of the input list
PagesAre(pages, D) ==
    /\ Len(pages) = Cardinality(D)
    /\ {pages[j].screenshot : j \in 1..Len(pages)} = D
    /\ \A j, k \in 1..Len(pages) : j < k => pages[j].screenshot < pages[k].screenshot

\* C15: for every ordered list of document paths, a missing or unrenderable
\* document is skipped without aborting the remaining ones, and the
\* composite holds exactly one page per captured document, in the order of
\* the input list (3 paths with the 2nd missing give 2 pages: 1st, 3rd).
C15_OnePagePerCapturedDocument ==
    (ExportApplied(applied) /\ applied.env.save /\ CapturedDocs(applied) # {})
      => /\ applied.output.written
         /\ PagesAre(applied.output.pages, CapturedDocs(applied))
         /\ applied.output.result.screenshots
                = [j \in 1..Len(applied.output.pages) |-> applied.output.pages[j].screenshot]

\* three documents, the second missing: pages for the first and the third
C15_Witness ==
    /\ ExportApplied(applied) /\ applied.env.save
    /\ applied.input.slide_files = <<FileA, FileM, FileN>>
    /\ applied.env.docs = [p \in PathSet |-> IF p = FileM THEN "missing" ELSE "ok"]
    /\ applied.output.written
    /\ Len(applied.output.pages) = 2
    /\ applied.output.pages[1].screenshot = 1
    /\ applied.output.pages[2].screenshot = 3

\* C16: when rasterization captures zero images, the export does not run
\* the assembly stage, creates no output file and returns the generation
\* result unchanged, without pptx_file and without screenshots.
C16_NoImagesNoComposite ==
    (ExportApplied(applied) /\ CapturedDocs(applied) = {})
      => /\ ~applied.output.assembled
         /\ ~applied.output.written
         /\ applied.output.result = applied.input

\* two documents were given and neither was captured
C16_Witness ==
    /\ ExportApplied(applied) /\ CapturedDocs(applied) = {}
    /\ Len(applied.input.slide_files) = 2
    /\ ~applied.output.assembled /\ ~applied.output.written
    /\ applied.output.result = applied.input

\* capture_slide_screenshots was applied with a progress callback on a
\* machine whose browser starts
CaptureApplied(a) ==
    a.fn = "capture_slide_screenshots" /\ a.env.launch /\ a.input.progress_callback

\* C31: during rasterization with a progress callback supplied, exactly one
\* progress event is emitted per successfully captured document, in document
\* order, carrying that document's 1-based position in the input list; a
\* skipped or failed document emits none, and the captured image of the
\* document at position i is always named by i, not by its rank among the
\* captured ones.
C31_OneEventPerCapture ==
    CaptureApplied(applied)
      => /\ Len(applied.output.events) = Cardinality(CapturedDocs(applied))
         /\ \A j \in 1..Len(applied.output.events) :
                /\ applied.output.events[j].event = "screenshot_captured"
                /\ applied.output.events[j].slide_number \in CapturedDocs(applied)
                /\ applied.output.events[j].total_slides = Len(applied.input.slide_files)
                /\ applied.output.events[j].filename = applied.output.events[j].slide_number
         /\ \A j, k \in 1..Len(applied.output.events) :
                j < k => applied.output.events[j].slide_number
                           < applied.output.events[k].slide_number
         /\ applied.output.screenshots
                = [j \in 1..Len(applied.output.events) |->
                       applied.output.events[j].slide_number]

\* three documents, the first missing and the second unrenderable: one event
\* and one image, both for position 3
C31_Witness ==
    /\ CaptureApplied(applied)
    /\ applied.input.slide_files = <<FileA, FileM, FileN>>
    /\ applied.env.docs = [p \in PathSet |-> IF p = FileA THEN "missing"
                                               ELSE IF p = FileM THEN "unrenderable" ELSE "ok"]
    /\ applied.output.screenshots = <<3>>
    /\ Len(applied.output.events) = 1
    /\ applied.output.events[1].slide_number = 3

\* _export_to_pptx was applied under a title and saved the composite
TitledApplied(a) == a.fn = "_export_to_pptx(title)" /\ a.output.written

\* the path depends on the title alone
PathOfTitleAlone ==
    TitledApplied(applied)
      => applied.output.result.pptx_file = PathStr(PathParts(OutputFile(applied.input)))

\* C32: for every presentation title, the composite is saved at
\* exports/<sanitized-title>.pptx where the sanitized title contains no space
\* and no path separator, so the file always lies directly under exports/;
\* the path depends on the title alone, so equal titles always give the same
\* path.
C32_DirectlyUnderExports ==
    TitledApplied(applied)
      => /\ \A i \in 1..Len(applied.input) :
                ReplaceSpaces(applied.input)[i] \notin {SP, "/"}
         /\ Len(PathParts(applied.output.result.pptx_file)) = 2
         /\ PathParts(applied.output.result.pptx_file)[1] = <<"exports">>
         /\ PathOfTitleAlone

\* the same, for the titles that hold no separator
UnderExportsWithoutSeparator ==
    (TitledApplied(applied) /\ \A i \in 1..Len(applied.input) : applied.input[i] # "/")
      => /\ \A i \in 1..Len(applied.input) :
                ReplaceSpaces(applied.input)[i] \notin {SP, "/"}
         /\ Len(PathParts(applied.output.result.pptx_file)) = 2
         /\ PathParts(applied.output.result.pptx_file)[1] = <<"exports">>

\* a title that leaves exports/: "../Q4" is saved at exports/../Q4.pptx
LeavesExports ==
    /\ TitledApplied(applied)
    /\ applied.input = <<"..", "/", "Q4">>
    /\ applied.output.result.pptx_file = <<"exports", "/", "..", "/", "Q4", ".pptx">>

\* update_file was applied, the operating system refusing nothing
UpdateApplied(a) == a.fn = "update_file" /\ a.env.io = "none"

\* read_file's text for a file that holds content
ContentsOf(p, content) == <<"File contents of", SP, p, COLON, "\n\n">> \o content

\* on a path that does not exist: an error result, the filesystem unchanged
MissingLeftAlone(a) ==
    ~Exists(a.env.fs, a.input.file_path)
      => /\ a.output.update.exc = None
         /\ a.output.update.failed
         /\ StartsWithError(a.output.update.text)
         /\ a.output.update.fs = a.env.fs

\* on an existing path: the whole content replaced and read back
ReplacedAndReadBack(a) ==
    Exists(a.env.fs, a.input.file_path)
      => /\ ~a.output.update.failed
         /\ a.output.update.fs
                = [a.env.fs EXCEPT !.files[a.input.file_path] = a.input.content]
         /\ a.output.read.text = ContentsOf(a.input.file_path, a.input.content)

\* C33: update_file on a path that does not exist returns an error result
\* and leaves the filesystem unchanged (it never creates the file); on an
\* existing path it replaces the whole content, so a read_file that follows
\* returns exactly the new content.
C33_UpdateReplaces ==
    UpdateApplied(applied) => MissingLeftAlone(applied) /\ ReplacedAndReadBack(applied)

\* the same, for the contents that hold no carriage return and no character
\* that cannot be encoded
UpdateReplacesPlainText ==
    (UpdateApplied(applied)
       /\ \A i \in 1..Len(applied.input.content) :
              applied.input.content[i] \notin {CR, SURROGATE})
      => MissingLeftAlone(applied) /\ ReplacedAndReadBack(applied)

\* a content with a carriage return is stored as given and read back changed
ReadBackChanged ==
    /\ UpdateApplied(applied)
    /\ applied.env.fs.files[FileA] = Html
    /\ applied.input.content = <<"<p>", CR, "\n">>
    /\ applied.output.update.fs.files[FileA] = <<"<p>", CR, "\n">>
    /\ applied.output.read.text = ContentsOf(FileA, <<"<p>", "\n">>)

\* a content that cannot be encoded leaves the file empty
UpdateEmptiesFile ==
    /\ UpdateApplied(applied)
    /\ applied.env.fs.files[FileA] = Html
    /\ applied.input.content = <<SURROGATE>>
    /\ applied.output.update.failed
    /\ applied.output.update.fs.files[FileA] = <<>>

(* ------------------------------------------------- composites: properties *)

\* the composite recorded for a session was modified after the session started
RecordedAfterStart ==
    \A s \in Sessions :
        web_sessions[s].pptx_file # NoPath
          => exports_dir[web_sessions[s].pptx_file].mtime > web_sessions[s].session_start_time

\* C35: the composite file recorded for a session as pptx_file (and served by
\* /api/download) is always one produced by a generation run of that same
\* session, never a composite produced by another session, for any
\* interleaving of requests of two sessions.
C35_OwnComposite ==
    /\ \A s \in Sessions :
           web_sessions[s].pptx_file # NoPath
             => exports_dir[web_sessions[s].pptx_file].by = s
    /\ \A d \in downloads : d.by = d.session

\* a session that generated nothing was sent the composite of the other one
ForeignCompositeServed ==
    \E d \in downloads :
        /\ d.by # d.session
        /\ \A p \in ExportPaths : exports_dir[p].by # d.session

====
